---------------------------- MODULE Spec2Model ----------------------------
(* A model of the Shadowrun multiplayer core of backend/app.py: the SQLite   *)
(* store (one file, one write lock), the session and membership functions,   *)
(* the scene log, the command router and its handlers, and the event stream. *)
(* Every request runs on its own worker; a worker's steps are the SQL        *)
(* statements of its handler, so requests interleave between statements.     *)
EXTENDS Integers, Sequences, FiniteSets, TLC

(***************************************************************************)
(* Bounds of the model                                                     *)
(***************************************************************************)
\* the number of requests the workers take in one run
MaxRequests == 3

Workers == {"w1", "w2"}
Observers == {"o1", "o2"}
SessionIds == {"s1", "s2"}
UserIds == {"u1", "u2"}
EntityIds == {"e1"}

(***************************************************************************)
(* Text.  A string is a sequence of pieces; a piece is a maximal run of    *)
(* word characters, one whitespace run, or one punctuation character.      *)
(***************************************************************************)
IsSpace(p) == p \in {" ", "\n", "\t"}

RECURSIVE StripLeft(_)
StripLeft(s) == IF s # <<>> /\ IsSpace(Head(s)) THEN StripLeft(Tail(s)) ELSE s

RECURSIVE StripRight(_)
StripRight(s) ==
    IF s # <<>> /\ IsSpace(s[Len(s)]) THEN StripRight(SubSeq(s, 1, Len(s) - 1)) ELSE s

\* str.strip()
Strip(s) == StripRight(StripLeft(s))

\* str.split(): the maximal runs of non-whitespace pieces, in order
RECURSIVE SplitFrom(_, _, _)
SplitFrom(s, cur, acc) ==
    IF s = <<>> THEN (IF cur = <<>> THEN acc ELSE Append(acc, cur))
    ELSE IF IsSpace(Head(s))
         THEN SplitFrom(Tail(s), <<>>, IF cur = <<>> THEN acc ELSE Append(acc, cur))
         ELSE SplitFrom(Tail(s), Append(cur, Head(s)), acc)

Split(s) == SplitFrom(s, <<>>, <<>>)

\* " ".join(args)
RECURSIVE Join(_)
Join(args) ==
    IF args = <<>> THEN <<>>
    ELSE IF Len(args) = 1 THEN Head(args)
    ELSE Head(args) \o <<" ">> \o Join(Tail(args))

\* str.lower() on the pieces the inputs use
LowerPiece(p) ==
    CASE p = "SUMMON" -> "summon"
      [] p = "Echo" -> "echo"
      [] OTHER -> p

Lower(s) == [i \in 1..Len(s) |-> LowerPiece(s[i])]

\* str(n) for the small numbers the model reaches
NumStr(n) ==
    CASE n = 0 -> "0" [] n = 1 -> "1" [] n = 2 -> "2" [] n = 3 -> "3"
      [] n = 4 -> "4" [] n = 5 -> "5" [] n = 6 -> "6" [] n = 7 -> "7"
      [] OTHER -> "n"


(***************************************************************************)
(* State                                                                   *)
(***************************************************************************)
VARIABLES
    rpg_sessions,   \* table rpg_sessions: the committed rows
    session_users,  \* table session_users: the committed rows
    scene_logs,     \* table scene_logs: per session, the committed rows in insertion order
    entities,       \* table entities: the committed rows
    scene_info,     \* table scene_info: the committed rows
    conversations,  \* table conversations and conversation_histories: per user, the messages
    writer,         \* the connection holding the database's write lock
    pc,             \* each worker's position in its handler
    req,            \* each worker's request
    loc,            \* each worker's local variables
    res,            \* each worker's response
    nreq,           \* the number of requests taken so far
    accepted,       \* per session, the number of set-scene commands answered "Scene updated"
    returned,       \* per session, the log_id values add_to_scene_log has returned, in order
    obs             \* each stream consumer: its connection's generator, what it received and saw

vars == <<rpg_sessions, session_users, scene_logs, entities, scene_info, conversations,
          writer, pc, req, loc, res, nreq, accepted, returned, obs>>

db == <<rpg_sessions, session_users, scene_logs, entities, scene_info, conversations>>

\* no connection holds the write lock
NoConn == <<"none", "-">>

Roles == {"player", "gm", "observer"}

NoEntity == [entity_id |-> "", name |-> <<>>, type |-> <<>>, description |-> <<>>]

\* what a completion call meets: the response cache, the API key, and the
\* answers of the completion service to the successive attempts
NoEnv == [cached |-> FALSE, key_valid |-> FALSE, answers |-> <<>>]

\* the "roll" record of a response without a roll
NoRoll == [dice |-> <<>>, results |-> <<>>, successes |-> 0, glitch |-> FALSE,
           critical_glitch |-> FALSE]

NoReq == [op |-> "", sid |-> "", uid |-> "", role |-> "", cname |-> <<>>,
          command |-> <<>>, streaming |-> FALSE, env |-> NoEnv, fail_at |-> 0]

\* what get_session_info has read so far
NoView == [users |-> {}, scene |-> {}, entities |-> {}, logs |-> <<>>]

NoLoc == [caller |-> "", log_id |-> 0, speaker |-> <<>>, content |-> <<>>,
          command_type |-> "", is_gm_override |-> FALSE, scene_number |-> 0,
          scene_text |-> <<>>, entity |-> NoEntity, roll |-> NoRoll,
          view |-> NoView]

NoRes == [status |-> "", code |-> 0, msg |-> "", log_id |-> 0, output |-> <<>>,
          roll |-> NoRoll]

Ok(code, msg, id) ==
    [status |-> "success", code |-> code, msg |-> msg, log_id |-> id, output |-> <<>>,
     roll |-> NoRoll]

Err(code, msg) ==
    [status |-> "error", code |-> code, msg |-> msg, log_id |-> 0, output |-> <<>>,
     roll |-> NoRoll]

(***************************************************************************)
(* The store: the tables' keys and the queries the handlers run            *)
(***************************************************************************)
\* rpg_sessions: session_id TEXT PRIMARY KEY
SessionKeyFree(s) == \A r \in rpg_sessions : r.session_id # s

\* scene_info: session_id TEXT PRIMARY KEY
SceneKeyFree(s) == \A r \in scene_info : r.session_id # s

NoMembershipKey(s, u) == TRUE

\* session_users: PRIMARY KEY (session_id, user_id)
UserKeyFree(s, u) == \A r \in session_users : ~(r.session_id = s /\ r.user_id = u)

\* session_users: role TEXT CHECK(role IN ('player', 'gm', 'observer'))
RoleCheck(role) == role \in {"player", "gm", "observer"}

NoPrimaryKey(s, id) == TRUE

\* scene_logs: PRIMARY KEY (session_id, log_id)
LogKeyFree(s, id) == \A i \in DOMAIN scene_logs[s] : scene_logs[s][i].log_id # id

\* entities: PRIMARY KEY (session_id, entity_id)
EntityKeyFree(s, e) == \A r \in entities : ~(r.session_id = s /\ r.entity_id = e)

AnySession(s) == rpg_sessions

\* SELECT * FROM rpg_sessions WHERE session_id = ? AND is_active = 1
ActiveSession(s) == {r \in rpg_sessions : r.session_id = s /\ r.is_active}

\* SELECT ... FROM session_users WHERE session_id = ? AND user_id = ?
UserRows(s, u) == {r \in session_users : r.session_id = s /\ r.user_id = u}

\* SELECT * FROM scene_info WHERE session_id = ?
SceneRows(s) == {r \in scene_info : r.session_id = s}

LogIds(s) == {scene_logs[s][i].log_id : i \in DOMAIN scene_logs[s]}

SetMax(S) == CHOOSE m \in S : \A x \in S : x <= m

\* SELECT MAX(log_id) FROM scene_logs WHERE session_id = ?  (0 stands for NULL)
MaxLogId(s) == IF LogIds(s) = {} THEN 0 ELSE SetMax(LogIds(s))

(***************************************************************************)
(* Init: the tables init_db creates, empty; no request, no stream          *)
(***************************************************************************)
NoObs == [state |-> "off", sid |-> "", last_log_id |-> 0, start |-> 0,
          received |-> <<>>, cycle |-> <<>>, after |-> 0, max_at_poll |-> 0,
          cursor |-> 0, scene_seen |-> 0]

Init ==
    /\ rpg_sessions = {}
    /\ session_users = {}
    /\ scene_logs = [s \in SessionIds |-> <<>>]
    /\ entities = {}
    /\ scene_info = {}
    /\ conversations = [u \in UserIds |-> <<>>]
    /\ writer = NoConn
    /\ pc = [w \in Workers |-> "idle"]
    /\ req = [w \in Workers |-> NoReq]
    /\ loc = [w \in Workers |-> NoLoc]
    /\ res = [w \in Workers |-> NoRes]
    /\ nreq = 0
    /\ accepted = [s \in SessionIds |-> 0]
    /\ returned = [s \in SessionIds |-> <<>>]
    /\ obs = [o \in Observers |-> NoObs]

\* a worker takes a request
Take ==
    /\ nreq < MaxRequests
    /\ nreq' = nreq + 1

\* the handler returns: the response is recorded
Finish(w, r) ==
    /\ pc' = [pc EXCEPT ![w] = "done"]
    /\ res' = [res EXCEPT ![w] = r]

\* the worker takes the next request
Return(w) ==
    /\ pc[w] = "done"
    /\ pc' = [pc EXCEPT ![w] = "idle"]
    /\ req' = [req EXCEPT ![w] = NoReq]
    /\ loc' = [loc EXCEPT ![w] = NoLoc]
    /\ res' = [res EXCEPT ![w] = NoRes]
    /\ UNCHANGED <<db, writer, nreq, accepted, returned, obs>>

(***************************************************************************)
(* create_rpg_session (POST /api/sessions)                                 *)
(***************************************************************************)
CreateRowsWithoutScene(s, u) ==
    <<[table |-> "rpg_sessions",
       row |-> [session_id |-> s, created_by |-> u, is_active |-> TRUE]],
      [table |-> "session_users",
       row |-> [session_id |-> s, user_id |-> u, role |-> "gm",
                character_name |-> <<"Game Master">>]]>>

\* the rows of the three INSERTs, in the order of the statements
CreateRows(s, u) ==
    <<[table |-> "rpg_sessions",
       row |-> [session_id |-> s, created_by |-> u, is_active |-> TRUE]],
      [table |-> "scene_info",
       row |-> [session_id |-> s, location |-> <<"Unknown location">>,
                goal |-> <<"Awaiting mission briefing">>, opposition |-> <<"Unknown">>,
                magical_conditions |-> <<"Normal">>, current_scene_number |-> 1]],
      [table |-> "session_users",
       row |-> [session_id |-> s, user_id |-> u, role |-> "gm",
                character_name |-> <<"Game Master">>]]>>

\* the INSERT of the row meets no row with its primary key
InsertOk(t) ==
    CASE t.table = "rpg_sessions" -> SessionKeyFree(t.row.session_id)
      [] t.table = "scene_info" -> SceneKeyFree(t.row.session_id)
      [] t.table = "session_users" -> UserKeyFree(t.row.session_id, t.row.user_id)

\* the statements at which the storage may fail (0: at none)
FailAt == 0..3

\* the first INSERT that raises: a key is taken, or the storage fails at it
FirstFailure(rows, fail_at) ==
    LET bad == {k \in DOMAIN rows : ~InsertOk(rows[k]) \/ fail_at = k}
    IN  IF bad = {} THEN 0 ELSE CHOOSE k \in bad : \A j \in bad : k <= j

KeepWrites(pending) == pending

\* conn.rollback(): what is left of the writes of the open transaction
Rollback(pending) == <<>>

\* the rows among the writes that belong to a table
RowsFor(table, writes) ==
    {writes[i].row : i \in {j \in DOMAIN writes : writes[j].table = table}}

\* the three INSERTs, on one connection, in one transaction
CreateInsertOf(w, ids) ==
    /\ pc[w] = "idle"
    /\ Take
    /\ writer = NoConn
    /\ \E s \in ids, u \in UserIds, fail_at \in FailAt :
        LET rows == CreateRows(s, u)
            k == FirstFailure(rows, fail_at)
            left == Rollback(SubSeq(rows, 1, k - 1))
        IN  /\ req' = [req EXCEPT ![w] = [NoReq EXCEPT !.op = "create", !.sid = s, !.uid = u,
                                                       !.fail_at = fail_at]]
            /\ IF k = 0
               THEN /\ writer' = <<w, "A">>
                    /\ pc' = [pc EXCEPT ![w] = "create_commit"]
                    /\ UNCHANGED <<res, rpg_sessions, scene_info, session_users>>
               ELSE \* the INSERT raises: rollback, re-raised, the endpoint answers 500
                    /\ Finish(w, Err(500, IF InsertOk(rows[k]) THEN "OperationalError"
                                          ELSE "IntegrityError"))
                    /\ rpg_sessions' = rpg_sessions \cup RowsFor("rpg_sessions", left)
                    /\ scene_info' = scene_info \cup RowsFor("scene_info", left)
                    /\ session_users' = session_users \cup RowsFor("session_users", left)
                    /\ UNCHANGED writer
    /\ UNCHANGED <<scene_logs, entities, conversations, loc, accepted, returned, obs>>

\* the first INSERT finds the database locked until the busy timeout
CreateBusyOf(w, ids) ==
    /\ pc[w] = "idle"
    /\ Take
    /\ writer # NoConn
    /\ \E s \in ids, u \in UserIds :
        req' = [req EXCEPT ![w] = [NoReq EXCEPT !.op = "create", !.sid = s, !.uid = u]]
    /\ Finish(w, Err(500, "database is locked"))
    /\ UNCHANGED <<db, writer, loc, accepted, returned, obs>>

\* generate_session_id draws any id
CreateInsert(w) == CreateInsertOf(w, SessionIds)

CreateBusy(w) == CreateBusyOf(w, SessionIds)

CreateCommit(w) ==
    /\ pc[w] = "create_commit"
    /\ LET rows == CreateRows(req[w].sid, req[w].uid)
       IN  /\ rpg_sessions' = rpg_sessions \cup RowsFor("rpg_sessions", rows)
           /\ scene_info' = scene_info \cup RowsFor("scene_info", rows)
           /\ session_users' = session_users \cup RowsFor("session_users", rows)
    /\ writer' = NoConn
    /\ Finish(w, Ok(200, "created", 0))
    /\ UNCHANGED <<scene_logs, entities, conversations, req, loc, nreq, accepted, returned, obs>>

(***************************************************************************)
(* join_rpg_session (POST /api/sessions/<id>/join)                         *)
(***************************************************************************)
CharNames == {<<>>, <<"Ghost">>}

JoinCheck(w) ==
    /\ pc[w] = "idle"
    /\ Take
    /\ \E s \in SessionIds, u \in UserIds, r \in Roles, c \in CharNames :
        /\ req' = [req EXCEPT ![w] = [NoReq EXCEPT !.op = "join", !.sid = s, !.uid = u,
                                                   !.role = r, !.cname = c]]
        /\ IF ActiveSession(s) = {}
           THEN Finish(w, Err(404, "Session not found or inactive"))
           ELSE IF UserRows(s, u) # {}
           THEN Finish(w, Err(400, "User already in session"))
           ELSE pc' = [pc EXCEPT ![w] = "join_insert"] /\ UNCHANGED res
    /\ UNCHANGED <<db, writer, loc, accepted, returned, obs>>

JoinInsert(w) ==
    /\ pc[w] = "join_insert"
    /\ writer = NoConn
    /\ IF UserKeyFree(req[w].sid, req[w].uid) /\ RoleCheck(req[w].role)
       THEN /\ writer' = <<w, "A">>
            /\ pc' = [pc EXCEPT ![w] = "join_commit"]
            /\ UNCHANGED res
       ELSE \* IntegrityError: rollback, answered 500
            /\ Finish(w, Err(500, "Failed to join session"))
            /\ UNCHANGED writer
    /\ UNCHANGED <<db, req, loc, nreq, accepted, returned, obs>>

JoinCommit(w) ==
    /\ pc[w] = "join_commit"
    /\ session_users' = session_users \cup
         {[session_id |-> req[w].sid, user_id |-> req[w].uid, role |-> req[w].role,
           character_name |-> IF req[w].cname # <<>> THEN req[w].cname
                              ELSE <<"Runner-", req[w].uid>>]}
    /\ writer' = NoConn
    /\ Finish(w, Ok(200, "joined", 0))
    /\ UNCHANGED <<rpg_sessions, scene_logs, entities, scene_info, conversations, req, loc, nreq,
                   accepted, returned, obs>>

(***************************************************************************)
(* The command texts the requests carry                                    *)
(***************************************************************************)
CmdEcho == <<"/", "echo", " ", "hi">>
CmdEchoEmpty == <<"/", "Echo", " ">>
CmdSummonQuoted ==
    <<"/", "summon", " ", "boss", " ", "\"", "Lone", " ", "Star", " ", "officer", "\"">>
CmdSummonBoss == <<"/", "summon", " ", "Razor", " ", "boss">>
CmdSummonDrone == <<"/", "SUMMON", " ", "Sparky", " ", "drone", " ", "armed">>
CmdSummonNpc == <<"/", "summon", " ", "Razor">>
CmdSummonNone == <<"/", "summon">>
CmdSceneShow == <<"/", "scene">>
CmdSceneSet ==
    <<"/", "scene", " ", "location", ":", " ", "Downtown", ",", " ",
      "goal", ":", " ", "extract", " ", "the", " ", "fixer">>
CmdScenePlain == <<"/", "scene", " ", "Rain">>
CmdSceneProse ==
    <<"/", "scene", " ", "a", " ", "magical", " ", "storm", ",", " ", "goal", ":", " ", "run">>
CmdRoll == <<"/", "roll", " ", "2d1", " ", "sneak">>
CmdMark == <<"/", "mark">>
CmdUnknown == <<"/", "dance">>
CmdMeta == <<"/", "meta", " ", "note">>
CmdRecall == <<"/", "recall">>
CmdPulse == <<"/", "pulse">>
CmdSlash == <<"/">>
CmdPrompt == <<"hello">>
CmdBlank == <<" ">>
CmdEchoWide == <<"/", "echo", " ", "a", " ", " ", "b">>

Commands ==
    {CmdEcho, CmdEchoEmpty, CmdSummonQuoted, CmdSummonBoss, CmdSummonDrone, CmdSummonNpc,
     CmdSummonNone, CmdSceneShow, CmdSceneSet, CmdScenePlain, CmdSceneProse, CmdRoll, CmdMark, CmdUnknown,
     CmdPrompt, CmdBlank}

(***************************************************************************)
(* process_scene_command: the labelled fields of the scene text            *)
(***************************************************************************)
\* the characters that end a field's value: [^\n,;.]
IsStop(p) == p \in {"\n", ",", ";", "."}

\* the pieces from position i up to the first stop
RECURSIVE ValueFrom(_, _)
ValueFrom(s, i) ==
    IF i > Len(s) \/ IsStop(s[i]) THEN <<>> ELSE <<s[i]>> \o ValueFrom(s, i + 1)

\* re.search(label + r":([^\n,;.]+)", text, re.IGNORECASE): where the value starts, 0 if no match
LabelMatch(s, label) ==
    LET hits == {i \in 1..Len(s) : /\ LowerPiece(s[i]) = label
                                   /\ i + 2 <= Len(s)
                                   /\ s[i + 1] = ":"
                                   /\ ~IsStop(s[i + 2])}
    IN  IF hits = {} THEN 0 ELSE (CHOOSE i \in hits : \A j \in hits : i <= j) + 2

\* re.search(r"magical[^:]*:([^\n,;.]+)", text, re.IGNORECASE)
MagicalMatch(s) ==
    LET hits == {i \in 1..Len(s) :
                    /\ LowerPiece(s[i]) = "magical"
                    /\ \E j \in (i + 1)..(Len(s) - 1) :
                          /\ s[j] = ":"
                          /\ \A k \in (i + 1)..(j - 1) : s[k] # ":"
                          /\ ~IsStop(s[j + 1])}
    IN  IF hits = {} THEN 0
        ELSE LET i == CHOOSE i \in hits : \A j \in hits : i <= j
                 j == CHOOSE j \in (i + 1)..(Len(s) - 1) :
                         s[j] = ":" /\ \A k \in (i + 1)..(j - 1) : s[k] # ":"
             IN  j + 1

\* the row after the UPDATE: the matched fields set, the scene number written
SceneUpdated(row, text, scene_number) ==
    LET loca == LabelMatch(text, "location")
        goal == LabelMatch(text, "goal")
        oppo == LabelMatch(text, "opposition")
        magi == MagicalMatch(text)
    IN  [session_id |-> row.session_id,
         location |-> IF loca > 0 THEN Strip(ValueFrom(text, loca)) ELSE row.location,
         goal |-> IF goal > 0 THEN Strip(ValueFrom(text, goal)) ELSE row.goal,
         opposition |-> IF oppo > 0 THEN Strip(ValueFrom(text, oppo)) ELSE row.opposition,
         magical_conditions |-> IF magi > 0 THEN Strip(ValueFrom(text, magi))
                                ELSE row.magical_conditions,
         current_scene_number |-> scene_number + 1]

SceneMembersOnly(rows) == rows = {}

\* if not user_role or user_role[0] != "gm": the scene command is refused
SceneRefused(rows) == rows = {} \/ (CHOOSE r \in rows : TRUE).role # "gm"

\* process_scene_command up to its call of add_to_scene_log
SceneHandler(s, u, args) ==
    LET rows == UserRows(s, u)
        scene_text == Join(args)
        scene == SceneRows(s)
    IN  IF SceneRefused(rows)
        THEN [pc |-> "done", loc |-> NoLoc,
              res |-> Err(200, "Only the GM can use the /scene command")]
        ELSE IF scene_text = <<>>
        THEN [pc |-> "done", loc |-> NoLoc,
              res |-> IF scene = {} THEN Err(200, "No scene information found")
                      ELSE Ok(200, "scene", 0)]
        ELSE LET scene_number == IF scene = {} THEN 1
                                 ELSE (CHOOSE r \in scene : TRUE).current_scene_number
             IN  [pc |-> "log_read",
                  loc |-> [NoLoc EXCEPT !.caller = "scene",
                                        !.scene_number = scene_number,
                                        !.scene_text = scene_text,
                                        !.content = <<"**SCENE ", NumStr(scene_number), "**", "\n">>
                                                    \o scene_text,
                                        !.speaker = <<"SCENE">>,
                                        !.command_type = "scene",
                                        !.is_gm_override = TRUE],
                  res |-> NoRes]

(***************************************************************************)
(* process_summon_command up to its INSERT INTO entities                   *)
(***************************************************************************)
\* the entity types only the GM may summon
RestrictedTypes == {<<"boss">>, <<"security">>, <<"threat">>}

SummonAnyone(role, entity_type) == FALSE

\* the GM check of line 1236: the summon is refused
SummonRefused(role, entity_type) == role # "gm" /\ entity_type \in RestrictedTypes

ActionText(entity_type) ==
    IF entity_type \in {<<"spirit">>, <<"drone">>, <<"vehicle">>} THEN "summoned"
    ELSE IF entity_type \in {<<"npc">>, <<"contact">>} THEN "called"
    ELSE "added"

SummonHandler(s, u, args, e) ==
    IF args = <<>>
    THEN [pc |-> "done", loc |-> NoLoc, res |-> Err(200, "Entity name required")]
    ELSE LET entity_name == args[1]
             entity_type == IF Len(args) > 1 THEN args[2] ELSE <<"npc">>
             description == IF Len(args) > 2 THEN Join(SubSeq(args, 3, Len(args))) ELSE <<>>
             rows == UserRows(s, u)
         IN  IF rows = {}
             THEN [pc |-> "done", loc |-> NoLoc, res |-> Err(200, "User not found in session")]
             ELSE LET row == CHOOSE r \in rows : TRUE
                  IN  IF SummonRefused(row.role, entity_type)
                      THEN [pc |-> "done", loc |-> NoLoc,
                            res |-> Err(200, "Only GM can summon")]
                      ELSE [pc |-> "summon_insert",
                            loc |-> [NoLoc EXCEPT
                                !.caller = "summon",
                                !.entity = [entity_id |-> e, name |-> entity_name,
                                            type |-> entity_type,
                                            description |-> description],
                                !.content = <<"**">> \o row.character_name
                                            \o <<"** ", ActionText(entity_type), " ">>
                                            \o entity_type \o <<" '">> \o entity_name
                                            \o <<"' to the scene">>
                                            \o (IF description # <<>>
                                                THEN <<"\n">> \o description ELSE <<>>),
                                !.speaker = row.character_name,
                                !.command_type = "summon"],
                            res |-> NoRes]

(***************************************************************************)
(* process_echo_command up to its call of add_to_scene_log                 *)
(***************************************************************************)
EchoHandler(s, u, args) ==
    IF args = <<>>
    THEN [pc |-> "done", loc |-> NoLoc, res |-> Err(200, "Message text required")]
    ELSE LET rows == UserRows(s, u)
         IN  IF rows = {}
             THEN [pc |-> "done", loc |-> NoLoc, res |-> Err(200, "User not found in session")]
             ELSE [pc |-> "log_read",
                   loc |-> [NoLoc EXCEPT !.caller = "echo",
                                         !.content = Join(args),
                                         !.speaker = (CHOOSE r \in rows : TRUE).character_name,
                                         !.command_type = "echo"],
                   res |-> NoRes]

(***************************************************************************)
(* process_roll_command up to its call of add_to_scene_log                 *)
(***************************************************************************)
\* the characters of the dice arguments the inputs use
CharsOf(piece) ==
    CASE piece = "3d6" -> <<"3", "d", "6">>
      [] piece = "2d6" -> <<"2", "d", "6">>
      [] piece = "2d1" -> <<"2", "d", "1">>
      [] piece = "2d3" -> <<"2", "d", "3">>
      [] piece = "101d1" -> <<"1", "0", "1", "d", "1">>
      [] piece = "100d1" -> <<"1", "0", "0", "d", "1">>
      [] piece = "0d6" -> <<"0", "d", "6">>
      [] piece = "2d0" -> <<"2", "d", "0">>
      [] piece = "3D6" -> <<"3", "D", "6">>
      [] piece = "d6" -> <<"d", "6">>
      [] piece = "1d2d3" -> <<"1", "d", "2", "d", "3">>
      [] piece = "2" -> <<"2">>
      [] piece = "1d6" -> <<"1", "d", "6">>
      [] OTHER -> <<piece>>

\* the characters of a word of the command
RECURSIVE Chars(_)
Chars(word) == IF word = <<>> THEN <<>> ELSE CharsOf(Head(word)) \o Chars(Tail(word))

DecimalDigits == <<"0", "1", "2", "3", "4", "5", "6", "7", "8", "9">>

\* str.isdigit(): not empty, and every character a digit
IsDigit(chars) ==
    chars # <<>> /\ \A i \in 1..Len(chars) : \E d \in 1..10 : DecimalDigits[d] = chars[i]

\* int() of a string of decimal digits
RECURSIVE IntOf(_)
IntOf(chars) ==
    IF chars = <<>> THEN 0
    ELSE 10 * IntOf(SubSeq(chars, 1, Len(chars) - 1))
         + (CHOOSE d \in 0..9 : DecimalDigits[d + 1] = chars[Len(chars)])

\* str(n) of a natural number
RECURSIVE Str(_)
Str(n) == IF n < 10 THEN <<DecimalDigits[n + 1]>>
          ELSE Str(n \div 10) \o <<DecimalDigits[(n % 10) + 1]>>

\* str.lower() on the characters of a dice argument
LowerChars(chars) == [i \in 1..Len(chars) |-> IF chars[i] = "D" THEN "d" ELSE chars[i]]

\* str.split('d'): the parts between the separators, empty parts kept
RECURSIVE SplitD(_, _)
SplitD(chars, cur) ==
    IF chars = <<>> THEN <<cur>>
    ELSE IF Head(chars) = "d" THEN <<cur>> \o SplitD(Tail(chars), <<>>)
    ELSE SplitD(Tail(chars), Append(cur, Head(chars)))

\* the most dice one command rolls
max_dice == 100

\* num_dice = min(num_dice, 100)
Clamp(num_dice) == IF num_dice < max_dice THEN num_dice ELSE max_dice

\* num_dice and dice_size as the handler parses them from its first argument
ParseDice(dice_spec) ==
    LET parts == SplitD(LowerChars(dice_spec), <<>>)
        parsed ==
            IF \E i \in 1..Len(dice_spec) : dice_spec[i] = "d"
            THEN IF Len(parts) = 2 /\ IsDigit(parts[1]) /\ IsDigit(parts[2])
                 THEN [num_dice |-> IntOf(parts[1]), dice_size |-> IntOf(parts[2])]
                 ELSE [num_dice |-> 1, dice_size |-> 6]
            ELSE IF IsDigit(dice_spec)
                 THEN [num_dice |-> IntOf(dice_spec), dice_size |-> 6]
                 ELSE [num_dice |-> 1, dice_size |-> 6]
    IN  [num_dice |-> Clamp(parsed.num_dice), dice_size |-> parsed.dice_size]

\* what [random.randint(1, dice_size) for _ in range(num_dice)] can give;
\* random.randint(1, 0) raises ValueError, so a die without faces gives nothing
Rolls(num_dice, dice_size) == [1..num_dice -> 1..dice_size]

\* sum(1 for r in results if r >= 5)
Successes(results) == Cardinality({i \in 1..Len(results) : results[i] >= 5})

\* sum(1 for r in results if r == 1)
Ones(results) == Cardinality({i \in 1..Len(results) : results[i] = 1})

FloorHalf(num_dice) == [whole |-> num_dice \div 2, halves |-> 0]

\* num_dice / 2, a float: whole + halves * 0.5, exact for the counts rolled
Half(num_dice) == [whole |-> num_dice \div 2, halves |-> num_dice % 2]

\* ones >= num_dice / 2
Glitch(ones, num_dice) ==
    \/ ones > Half(num_dice).whole
    \/ ones = Half(num_dice).whole /\ Half(num_dice).halves = 0

NoSuccesses(glitch, successes) == successes = 0

\* glitch and successes == 0
CriticalGlitch(glitch, successes) == glitch /\ successes = 0

\* the "roll" record of the response
RollRecord(num_dice, dice_size, results) ==
    LET successes == Successes(results)
        ones == Ones(results)
        glitch == Glitch(ones, num_dice)
    IN  [dice |-> Str(num_dice) \o <<"d">> \o Str(dice_size),
         results |-> results,
         successes |-> successes,
         glitch |-> glitch,
         critical_glitch |-> CriticalGlitch(glitch, successes)]

\* the dice argument of a command that rpg_command routes to the roll handler
DiceSpecOf(text) ==
    LET args == Tail(Split(text))
    IN  Chars(IF args # <<>> THEN args[1] ELSE <<"1d6">>)

IsRoll(text) ==
    /\ text # <<>>
    /\ Head(text) = "/"
    /\ Lower(Tail(Split(text)[1])) = <<"roll">>

\* the numbers the random generator gives a request
RollChoices(text) ==
    IF IsRoll(text)
    THEN LET dice == ParseDice(DiceSpecOf(text))
         IN  IF Rolls(dice.num_dice, dice.dice_size) = {} THEN {<<>>}
             ELSE Rolls(dice.num_dice, dice.dice_size)
    ELSE {<<>>}

\* the parse, the roll, the comment, the speaker read from session_users; the
\* numbers rolled are left out of the text of the entry
RollHandler(s, u, args, results) ==
    LET dice_spec == Chars(IF args # <<>> THEN args[1] ELSE <<"1d6">>)
        comment == IF Len(args) > 1 THEN Join(Tail(args)) ELSE <<>>
        dice == ParseDice(dice_spec)
        roll == RollRecord(dice.num_dice, dice.dice_size, results)
        rows == UserRows(s, u)
    IN  IF Rolls(dice.num_dice, dice.dice_size) = {}
        THEN [pc |-> "done", loc |-> NoLoc, res |-> Err(200, "ValueError")]
        ELSE
        [pc |-> "log_read",
         loc |-> [NoLoc EXCEPT !.caller = "roll",
                               !.content = <<"Rolled ">> \o roll.dice
                                           \o (IF comment # <<>>
                                               THEN <<"Comment: ">> \o comment ELSE <<>>),
                               !.speaker = IF rows # {}
                                           THEN (CHOOSE r \in rows : TRUE).character_name
                                           ELSE <<"Runner-", u>>,
                               !.command_type = "roll",
                               !.roll = roll],
         res |-> NoRes]

(***************************************************************************)
(* rpg_command (POST /api/rpg/command)                                     *)
(***************************************************************************)
\* the answers of the completion service: an HTTP status (0: the request raised,
\* a timeout or a connection error) and what the body holds
AnswerOk == [status |-> 200, body |-> "choices"]
AnswerNoChoices == [status |-> 200, body |-> "no_choices"]
AnswerMalformed == [status |-> 200, body |-> "malformed"]
AnswerRateLimit == [status |-> 429, body |-> "error"]
AnswerUnauthorized == [status |-> 401, body |-> "error"]
AnswerTimeout == [status |-> 0, body |-> ""]

\* the answers to the successive attempts of one call
ServerAnswers ==
    {<<AnswerOk>>, <<AnswerRateLimit, AnswerOk>>,
     <<AnswerRateLimit, AnswerRateLimit, AnswerRateLimit, AnswerOk>>,
     <<AnswerRateLimit, AnswerRateLimit, AnswerRateLimit, AnswerRateLimit>>,
     <<AnswerUnauthorized>>, <<AnswerTimeout>>, <<AnswerMalformed>>, <<AnswerNoChoices>>}

Envs ==
    {[cached |-> FALSE, key_valid |-> TRUE, answers |-> a] : a \in ServerAnswers}
    \cup {[cached |-> TRUE, key_valid |-> TRUE, answers |-> <<AnswerOk>>],
          [cached |-> FALSE, key_valid |-> FALSE, answers |-> <<AnswerOk>>]}

max_retries == 3

\* every status raise_for_status() raises for, among the answers drawn
ErrorStatusCodes == {401, 429, 500, 502, 503, 504}

retryable_status_codes == {429, 500, 502, 503, 504}

\* key in processed_prompt, for the key "hello": the lowered prompt holds it
MentionsHello(prompt) ==
    \E i \in DOMAIN prompt :
        prompt[i] \in {"hello", "Hello there! I'm Wren, your terminal assistant."}

\* simulate_ai_response: the canned answer, or the default one quoting the prompt
SimulateAiResponse(prompt) ==
    [kind |-> "simulated",
     text |-> IF MentionsHello(prompt)
              THEN <<"Hello there! I'm Wren, your terminal assistant.">>
              ELSE <<"[Simulated AI] I processed your input: '">> \o prompt \o <<"'">>,
     finish_reason |-> "stop"]

\* the retry loop of call_openai_api, at attempt retry_count + 1
RECURSIVE Post(_, _, _)
Post(prompt, answers, retry_count) ==
    LET response == answers[retry_count + 1]
    IN  IF response.status = 0
        THEN \* except Exception as req_err
             SimulateAiResponse(prompt)
        ELSE IF response.status \in retryable_status_codes /\ retry_count < max_retries
        THEN Post(prompt, answers, retry_count + 1)
        ELSE IF response.status >= 400
        THEN \* raise_for_status(): except httpx.HTTPStatusError, no retry left
             SimulateAiResponse(prompt)
        ELSE IF response.body = "malformed"
        THEN \* response.json() raises
             SimulateAiResponse(prompt)
        ELSE IF response.body = "choices"
        THEN [kind |-> "completion", text |-> <<"completion">>, finish_reason |-> "stop"]
        ELSE \* no valid response data
             SimulateAiResponse(prompt)

\* call_openai_api: what it returns to its caller (it raises nothing)
CallOpenaiApi(prompt, env) ==
    IF env.cached
    THEN [kind |-> "cached", text |-> <<"completion">>, finish_reason |-> "stop"]
    ELSE IF ~env.key_valid
    THEN SimulateAiResponse(prompt)
    ELSE Post(prompt, env.answers, 0)

\* def call_openai_api(prompt, max_tokens, temperature, model, user_id, stream)
CallOpenaiApiParams == {"prompt", "max_tokens", "temperature", "model", "user_id", "stream"}

\* def call_openai_api_streaming(prompt, max_tokens, temperature, model, user_id)
CallOpenaiApiStreamingParams == {"prompt", "max_tokens", "temperature", "model", "user_id"}

\* the keyword arguments rpg_command passes to either function
AskKeywords == {"prompt", "max_tokens", "user_id", "context"}

\* a Python call binds its keyword arguments, or raises TypeError
Binds(keywords, params) == keywords \subseteq params

\* the branch for a command without the "/" prefix
AskHandler(s, u, command, streaming, env) ==
    IF streaming
    THEN IF Binds(AskKeywords, CallOpenaiApiStreamingParams)
         THEN [pc |-> "done", loc |-> NoLoc, res |-> Ok(200, "event-stream", 0)]
         ELSE [pc |-> "done", loc |-> NoLoc, res |-> Err(500, "TypeError")]
    ELSE IF Binds(AskKeywords, CallOpenaiApiParams)
         THEN [pc |-> "log_read",
               loc |-> [NoLoc EXCEPT !.caller = "ai",
                                     !.content = CallOpenaiApi(command, env).text,
                                     !.speaker = <<"WREN">>,
                                     !.command_type = "ai"],
               res |-> NoRes]
         ELSE [pc |-> "done", loc |-> NoLoc, res |-> Err(500, "TypeError")]

OnlyMark == {<<"mark">>}

\* cmd in ["mark", "meta", "recall", "pulse"]
Placeholders == {<<"mark">>, <<"meta">>, <<"recall">>, <<"pulse">>}

\* rpg_command from its parameter check to the handler's first write or append
RpgCommand(s, u, command, streaming, e, env, results) ==
    IF command = <<>>
    THEN [pc |-> "done", loc |-> NoLoc, res |-> Err(400, "Missing required parameters")]
    ELSE IF ActiveSession(s) = {}
    THEN [pc |-> "done", loc |-> NoLoc, res |-> Err(404, "Session not found or inactive")]
    ELSE IF UserRows(s, u) = {}
    THEN [pc |-> "done", loc |-> NoLoc, res |-> Err(403, "User not in session")]
    ELSE IF Head(command) = "/"
    THEN LET parts == Split(command)
             cmd == Lower(Tail(parts[1]))
             args == Tail(parts)
         IN  CASE cmd = <<"scene">> -> SceneHandler(s, u, args)
               [] cmd = <<"roll">> -> RollHandler(s, u, args, results)
               [] cmd = <<"summon">> -> SummonHandler(s, u, args, e)
               [] cmd = <<"echo">> -> EchoHandler(s, u, args)
               [] cmd \in Placeholders ->
                    [pc |-> "done", loc |-> NoLoc, res |-> Err(200, "not yet implemented")]
               [] OTHER -> [pc |-> "done", loc |-> NoLoc, res |-> Err(200, "Unknown command")]
    ELSE AskHandler(s, u, command, streaming, env)

\* data.get("streaming", True): the prefixed commands never read it
StreamingChoices(text) == IF Strip(text) # <<>> /\ Head(Strip(text)) = "/" THEN {TRUE} ELSE BOOLEAN

\* only a prompt reaches the completion call
EnvChoices(text) ==
    IF Strip(text) = <<>> \/ Head(Strip(text)) = "/" THEN {NoEnv} ELSE Envs

DispatchOf(w, texts) ==
    /\ pc[w] = "idle"
    /\ Take
    /\ \E s \in SessionIds, u \in UserIds, text \in texts, e \in EntityIds :
        \E streaming \in StreamingChoices(text), env \in EnvChoices(text),
           results \in RollChoices(Strip(text)) :
            LET out == RpgCommand(s, u, Strip(text), streaming, e, env, results)
            IN  /\ req' = [req EXCEPT ![w] = [NoReq EXCEPT !.op = "command", !.sid = s,
                                                           !.uid = u, !.command = Strip(text),
                                                           !.streaming = streaming,
                                                           !.env = env]]
                /\ pc' = [pc EXCEPT ![w] = out.pc]
                /\ loc' = [loc EXCEPT ![w] = out.loc]
                /\ res' = [res EXCEPT ![w] = out.res]
    /\ UNCHANGED <<db, writer, accepted, returned, obs>>

Dispatch(w) == DispatchOf(w, Commands)

(***************************************************************************)
(* execute_command (POST /execute) with an ask command                     *)
(***************************************************************************)
AskTexts == {<<"ask">>, <<"ask", " ", "hello">>, <<"ask", " ", "status">>}

max_history == 5

\* get_conversation_history: the last max_history messages, oldest first
GetConversationHistory(history, n) ==
    SubSeq(history, IF Len(history) > n THEN Len(history) - n + 1 ELSE 1, Len(history))

NotRecorded(history, role, content) == history

\* add_to_conversation: the message is appended to the user's history
AddToConversation(history, role, content) ==
    Append(history, [role |-> role, content |-> content])

\* " ".join([f"{msg['role']}: {msg['content']}" for msg in history])
RECURSIVE JoinMessages(_)
JoinMessages(history) ==
    IF history = <<>> THEN <<>>
    ELSE <<Head(history).role, ": ">> \o Head(history).content
         \o (IF Len(history) > 1 THEN <<" ">> \o JoinMessages(Tail(history)) ELSE <<>>)

\* the prompt process_ask_command passes on: the context, a blank line, the question
FullPrompt(history, prompt) ==
    IF history = <<>> THEN prompt
    ELSE <<"Based on our previous conversation: ">> \o JoinMessages(history)
         \o <<"\n", "\n">> \o prompt

\* call_openai_api with a user_id: a completion of the service is stored in the
\* history before it is returned, a cached or simulated answer is not
CallRecords(history, prompt, env) ==
    LET r == CallOpenaiApi(prompt, env)
    IN  IF r.kind = "completion"
        THEN AddToConversation(AddToConversation(history, "user", prompt), "assistant", r.text)
        ELSE history

\* process_ask_command for a user_id: the output and the user's history after it
ProcessAskCommand(command_text, history, streaming, env) ==
    LET prompt == Strip(Tail(command_text))
        full_prompt == FullPrompt(GetConversationHistory(history, max_history), prompt)
        response_text == CallOpenaiApi(full_prompt, env).text
    IN  IF prompt = <<>>
        THEN [output |-> <<"Please provide a question after 'ask'.">>, history |-> history]
        ELSE IF streaming
        THEN [output |-> <<"[Streaming mode active.]">>, history |-> history]
        ELSE [output |-> response_text,
              history |-> AddToConversation(
                              AddToConversation(CallRecords(history, full_prompt, env),
                                                "user", prompt),
                              "assistant", response_text)]

ExecuteAsk(w) ==
    /\ pc[w] = "idle"
    /\ Take
    /\ \E u \in UserIds, text \in AskTexts, streaming \in BOOLEAN, env \in Envs :
        /\ req' = [req EXCEPT ![w] = [NoReq EXCEPT !.op = "ask", !.uid = u,
                                                   !.command = text,
                                                   !.streaming = streaming, !.env = env]]
        /\ LET out == ProcessAskCommand(text, conversations[u], streaming, env)
           IN  /\ Finish(w, [Ok(200, "execute", 0) EXCEPT !.output = out.output])
               /\ conversations' = [conversations EXCEPT ![u] = out.history]
    /\ UNCHANGED <<rpg_sessions, session_users, scene_logs, entities, scene_info, writer, loc,
                   accepted, returned, obs>>

\* an exception reaches the handler's except clause: its connection is rolled
\* back, an error is answered (500 where the endpoint itself catches it)
Raise(w, msg) ==
    /\ writer' = IF writer = <<w, "A">> THEN NoConn ELSE writer
    /\ Finish(w, Err(IF req[w].op = "join" \/ loc[w].caller = "ai" THEN 500 ELSE 200, msg))

\* the row of INSERT INTO entities
EntityRow(w) ==
    [session_id |-> req[w].sid, entity_id |-> loc[w].entity.entity_id,
     name |-> loc[w].entity.name, type |-> loc[w].entity.type,
     status |-> "active", description |-> loc[w].entity.description,
     is_active |-> TRUE, created_by |-> req[w].uid]

\* an INSERT INTO entities that is committed at once, before the append
SummonInsertCommitted(w) ==
    /\ pc[w] = "summon_insert"
    /\ writer = NoConn
    /\ IF EntityKeyFree(req[w].sid, loc[w].entity.entity_id)
       THEN /\ entities' = entities \cup {EntityRow(w)}
            /\ pc' = [pc EXCEPT ![w] = "log_read"]
            /\ UNCHANGED <<res, writer>>
       ELSE /\ Raise(w, "IntegrityError")
            /\ UNCHANGED entities
    /\ UNCHANGED <<rpg_sessions, session_users, scene_logs, scene_info, conversations, req, loc,
                   nreq, accepted, returned, obs>>

\* process_summon_command: INSERT INTO entities, on the handler's connection
SummonInsert(w) ==
    /\ pc[w] = "summon_insert"
    /\ writer = NoConn
    /\ IF EntityKeyFree(req[w].sid, loc[w].entity.entity_id)
       THEN /\ writer' = <<w, "A">>
            /\ pc' = [pc EXCEPT ![w] = "log_read"]
            /\ UNCHANGED res
       ELSE Raise(w, "IntegrityError")
    /\ UNCHANGED <<db, req, loc, nreq, accepted, returned, obs>>

(***************************************************************************)
(* add_to_scene_log, on a connection of its own                            *)
(***************************************************************************)
FirstLogIdZero(s) == IF LogIds(s) = {} THEN 0 ELSE MaxLogId(s) + 1

\* log_id = 1 if max_id is None else max_id + 1
NextLogId(s) == IF LogIds(s) = {} THEN 1 ELSE MaxLogId(s) + 1

\* SELECT MAX(log_id) and the log_id computed from it
LogRead(w) ==
    /\ pc[w] = "log_read"
    /\ loc' = [loc EXCEPT ![w].log_id = NextLogId(req[w].sid)]
    /\ pc' = [pc EXCEPT ![w] = "log_write"]
    /\ UNCHANGED <<db, writer, req, res, nreq, accepted, returned, obs>>

\* INSERT INTO scene_logs and UPDATE rpg_sessions, the transaction left open
LogWrite(w) ==
    /\ pc[w] = "log_write"
    /\ writer = NoConn
    /\ IF LogKeyFree(req[w].sid, loc[w].log_id)
       THEN /\ writer' = <<w, "B">>
            /\ pc' = [pc EXCEPT ![w] = "log_commit"]
            /\ UNCHANGED res
       ELSE Raise(w, "IntegrityError")
    /\ UNCHANGED <<db, req, loc, nreq, accepted, returned, obs>>

\* an entry that carries the override flag whatever the caller passed
OverrideEntry(w) ==
    [log_id |-> loc[w].log_id, user_id |-> req[w].uid, speaker |-> loc[w].speaker,
     content |-> loc[w].content, command_type |-> loc[w].command_type,
     is_gm_override |-> TRUE]

\* the row of INSERT INTO scene_logs
LogEntry(w) ==
    [log_id |-> loc[w].log_id, user_id |-> req[w].uid, speaker |-> loc[w].speaker,
     content |-> loc[w].content, command_type |-> loc[w].command_type,
     is_gm_override |-> loc[w].is_gm_override]

\* conn.commit() and the return of the entry, then the caller's next statements
LogCommit(w) ==
    /\ pc[w] = "log_commit"
    /\ scene_logs' = [scene_logs EXCEPT ![req[w].sid] = Append(@, LogEntry(w))]
    /\ returned' = [returned EXCEPT ![req[w].sid] = Append(@, loc[w].log_id)]
    /\ writer' = NoConn
    /\ CASE loc[w].caller = "scene" ->
              /\ pc' = [pc EXCEPT ![w] = "scene_update"]
              /\ UNCHANGED <<res, entities>>
         [] loc[w].caller = "summon" ->
              \* conn.commit() of the handler's connection
              /\ entities' = entities \cup {EntityRow(w)}
              /\ Finish(w, Ok(200, "summon", loc[w].log_id))
         [] OTHER ->
              /\ Finish(w, [Ok(200, loc[w].caller, loc[w].log_id) EXCEPT
                               !.roll = loc[w].roll])
              /\ UNCHANGED entities
    /\ UNCHANGED <<rpg_sessions, session_users, scene_info, conversations, req, loc, nreq, accepted, obs>>

\* process_scene_command: UPDATE scene_info, on the handler's connection
SceneUpdate(w) ==
    /\ pc[w] = "scene_update"
    /\ writer = NoConn
    /\ writer' = <<w, "A">>
    /\ pc' = [pc EXCEPT ![w] = "scene_commit"]
    /\ UNCHANGED <<db, req, loc, res, nreq, accepted, returned, obs>>

EveryRow(r, s) == TRUE

\* UPDATE scene_info ... WHERE session_id = ?
SceneTarget(r, s) == r.session_id = s

SceneCommit(w) ==
    /\ pc[w] = "scene_commit"
    /\ scene_info' = {IF SceneTarget(r, req[w].sid)
                      THEN SceneUpdated(r, loc[w].scene_text, loc[w].scene_number)
                      ELSE r : r \in scene_info}
    /\ writer' = NoConn
    /\ Finish(w, Ok(200, "Scene updated", loc[w].log_id))
    /\ accepted' = [accepted EXCEPT ![req[w].sid] = @ + 1]
    /\ UNCHANGED <<rpg_sessions, session_users, scene_logs, entities, conversations, req, loc, nreq,
                   returned, obs>>

\* a write statement finds the lock held by another connection until the busy
\* timeout ends: sqlite3.OperationalError, database is locked
Busy(w) ==
    /\ pc[w] \in {"join_insert", "summon_insert", "log_write", "scene_update"}
    /\ writer # NoConn
    /\ Raise(w, "database is locked")
    /\ UNCHANGED <<db, req, loc, nreq, accepted, returned, obs>>

(***************************************************************************)
(* rpg_stream (GET /api/rpg/stream/<session_id>) and its generator         *)
(***************************************************************************)
\* what the module's global name datetime is bound to: "import datetime" binds
\* the module, the later "from datetime import datetime" rebinds it to the class
DatetimeBinding == "class"

\* whether the attribute lookup datetime.<attr> succeeds
DatetimeHas(attr) ==
    IF DatetimeBinding = "module" THEN attr \in {"datetime", "timedelta", "date", "time"}
    ELSE attr \in {"now", "utcnow", "fromisoformat", "strptime"}

NewestFirst(rows) == [i \in 1..Len(rows) |-> rows[Len(rows) + 1 - i]]

\* the rows in ascending log_id (ORDER BY log_id)
RECURSIVE OrderByLogId(_)
OrderByLogId(rows) ==
    IF rows = <<>> THEN <<>>
    ELSE LET i == CHOOSE i \in DOMAIN rows : \A j \in DOMAIN rows :
                      \/ rows[i].log_id < rows[j].log_id
                      \/ (rows[i].log_id = rows[j].log_id /\ i <= j)
             rest == [k \in 1..(Len(rows) - 1) |-> IF k < i THEN rows[k] ELSE rows[k + 1]]
         IN  <<rows[i]>> \o OrderByLogId(rest)

SinceInclusive(s, after) ==
    OrderByLogId(SelectSeq(scene_logs[s], LAMBDA r : r.log_id >= after))

\* SELECT * FROM scene_logs WHERE session_id = ? AND log_id > ? ORDER BY log_id
Since(s, after) ==
    OrderByLogId(SelectSeq(scene_logs[s], LAMBDA r : r.log_id > after))

Event(kind, id) == [kind |-> kind, id |-> id]

\* the events one pass of the generator's loop yields, given the rows it read
CycleEvents(new_logs) ==
    [i \in 1..Len(new_logs) |-> Event("log", new_logs[i].log_id)]
    \o (IF DatetimeHas("timedelta")
        THEN \* the entity and scene queries of the last 5 seconds, then the heartbeat
             <<Event("heartbeat", 0)>>
        ELSE \* AttributeError while the entity query's argument is evaluated
             <<Event("error", 0)>>)

\* the endpoint's checks, SELECT MAX(log_id) ... or 0, and the connected event
Connect(o) ==
    /\ obs[o].state = "off"
    /\ \E s \in SessionIds, u \in UserIds :
        /\ obs[o].sid \in {"", s}
        /\ ActiveSession(s) # {}
        /\ UserRows(s, u) # {}
        /\ obs' = [obs EXCEPT ![o] =
                     [state |-> "on", sid |-> s, last_log_id |-> MaxLogId(s),
                      start |-> MaxLogId(s), received |-> <<>>,
                      cycle |-> <<Event("connected", 0)>>,
                      after |-> 0, max_at_poll |-> 0,
                      cursor |-> IF obs[o].sid = "" THEN MaxLogId(s) ELSE obs[o].cursor,
                      scene_seen |-> accepted[s]]]
    /\ UNCHANGED <<db, writer, pc, req, loc, res, nreq, accepted, returned>>

SharedCursor(o) ==
    SetMax({obs[p].last_log_id : p \in {p \in Observers : obs[p].sid = obs[o].sid}})

\* last_log_id, a nonlocal of the connection's own generator
Cursor(o) == obs[o].last_log_id

\* one pass of the loop of event_stream
Poll(o) ==
    /\ obs[o].state = "on"
    /\ LET s == obs[o].sid
           new_logs == Since(s, Cursor(o))
           ids == [i \in 1..Len(new_logs) |-> new_logs[i].log_id]
       IN  obs' = [obs EXCEPT ![o].last_log_id =
                                  IF new_logs # <<>>
                                  THEN SetMax({ids[i] : i \in DOMAIN ids}) ELSE @,
                              ![o].received = @ \o ids,
                              ![o].cycle = CycleEvents(new_logs),
                              ![o].after = obs[o].last_log_id,
                              ![o].max_at_poll = MaxLogId(s),
                              ![o].scene_seen = accepted[s]]
    /\ UNCHANGED <<db, writer, pc, req, loc, res, nreq, accepted, returned>>

\* the consumer drops the connection; it keeps the last log_id it has seen
Disconnect(o) ==
    /\ obs[o].state = "on"
    /\ obs' = [obs EXCEPT ![o] = [NoObs EXCEPT !.sid = obs[o].sid,
                                               !.cursor = obs[o].last_log_id]]
    /\ UNCHANGED <<db, writer, pc, req, loc, res, nreq, accepted, returned>>

(***************************************************************************)
(* The system                                                              *)
(***************************************************************************)
WorkerStep(w) ==
    \/ CreateInsert(w)
    \/ CreateBusy(w)
    \/ CreateCommit(w)
    \/ JoinCheck(w)
    \/ JoinInsert(w)
    \/ JoinCommit(w)
    \/ SummonInsert(w)
    \/ LogRead(w)
    \/ LogWrite(w)
    \/ LogCommit(w)
    \/ SceneUpdate(w)
    \/ SceneCommit(w)
    \/ Busy(w)
    \/ Return(w)

\* the requests of the workers, every command text among them
Next == \E w \in Workers : WorkerStep(w) \/ Dispatch(w)

Spec == Init /\ [][Next]_vars

\* the commands of the single client: the placeholders and a bare "/" as well
SoloCommands == Commands \cup {CmdMeta, CmdRecall, CmdPulse, CmdSlash, CmdEchoWide}

\* one client that sends its requests one after the other: a single worker,
\* so no statement ever meets another request's transaction
NextSolo ==
    \E w \in {"w1"} :
        \/ CreateInsert(w)
        \/ CreateCommit(w)
        \/ JoinCheck(w)
        \/ JoinInsert(w)
        \/ JoinCommit(w)
        \/ DispatchOf(w, SoloCommands)
        \/ ExecuteAsk(w)
        \/ SummonInsert(w)
        \/ LogRead(w)
        \/ LogWrite(w)
        \/ LogCommit(w)
        \/ SceneUpdate(w)
        \/ SceneCommit(w)
        \/ Busy(w)
        \/ Return(w)

SpecSolo == Init /\ [][NextSolo]_vars

\* the commands the workers send while the streams are watched
FeedCommands == {CmdEcho, CmdScenePlain}

\* the session ids generate_session_id draws while the streams are watched
FeedSessionIds == {"s1"}

FeedStep(w) ==
    \/ CreateInsertOf(w, FeedSessionIds)
    \/ CreateBusyOf(w, FeedSessionIds)
    \/ CreateCommit(w)
    \/ DispatchOf(w, FeedCommands)
    \/ LogRead(w)
    \/ LogWrite(w)
    \/ LogCommit(w)
    \/ SceneUpdate(w)
    \/ SceneCommit(w)
    \/ Busy(w)
    \/ Return(w)

\* the workers' appends and the stream consumers
NextFeed ==
    \/ \E w \in Workers : FeedStep(w)
    \/ \E o \in Observers : Connect(o) \/ Poll(o) \/ Disconnect(o)

SpecFeed == Init /\ [][NextFeed]_vars

\* the dice arguments of the roll commands one member sends
DiceArgs == {"3d6", "2d6", "2d3", "101d1", "100d1", "0d6", "2d0", "3D6", "d6", "1d2d3", "2", "x"}

RollCommands == {<<"/", "roll">>, CmdRoll} \cup {<<"/", "roll", " ", d>> : d \in DiceArgs}

\* one client that creates a session and rolls dice in it
NextRoll ==
    \E w \in {"w1"} :
        \/ CreateInsertOf(w, FeedSessionIds)
        \/ CreateCommit(w)
        \/ DispatchOf(w, RollCommands)
        \/ LogRead(w)
        \/ LogWrite(w)
        \/ LogCommit(w)
        \/ Return(w)

SpecRoll == Init /\ [][NextRoll]_vars

(***************************************************************************)
(* get_session_info behind GET /api/sessions/<session_id>                  *)
(***************************************************************************)
\* the longest log of the sessions whose snapshot is read
MaxLog == 22

\* LIMIT 20
recent_limit == 20

TakeAll(rows, k) == rows

\* LIMIT k: the first k rows of the ordered result
Limit(rows, k) == SubSeq(rows, 1, IF Len(rows) < k THEN Len(rows) ELSE k)

\* ORDER BY log_id DESC, and list.reverse()
Reversed(rows) == [i \in 1..Len(rows) |-> rows[Len(rows) + 1 - i]]

\* SELECT * FROM scene_logs WHERE session_id = ? ORDER BY log_id DESC LIMIT 20,
\* then logs.reverse()
RecentLogs(s) ==
    Reversed(Limit(Reversed(OrderByLogId(scene_logs[s])), recent_limit))

\* SELECT * FROM rpg_sessions WHERE session_id = ?, and the 404
InfoSession(w) ==
    /\ pc[w] = "idle"
    /\ Take
    /\ \E s \in SessionIds :
        /\ req' = [req EXCEPT ![w] = [NoReq EXCEPT !.op = "info", !.sid = s]]
        /\ IF \E r \in rpg_sessions : r.session_id = s
           THEN /\ pc' = [pc EXCEPT ![w] = "info_users"]
                /\ UNCHANGED res
           ELSE Finish(w, Err(404, "Session not found"))
    /\ UNCHANGED <<db, writer, loc, accepted, returned, obs>>

\* SELECT * FROM session_users WHERE session_id = ?
InfoUsers(w) ==
    /\ pc[w] = "info_users"
    /\ loc' = [loc EXCEPT ![w].view.users =
                  {r \in session_users : r.session_id = req[w].sid}]
    /\ pc' = [pc EXCEPT ![w] = "info_scene"]
    /\ UNCHANGED <<db, writer, req, res, nreq, accepted, returned, obs>>

\* SELECT * FROM scene_info ..., SELECT * FROM entities ... AND is_active = 1
InfoScene(w) ==
    /\ pc[w] = "info_scene"
    /\ loc' = [loc EXCEPT ![w].view.scene = SceneRows(req[w].sid),
                          ![w].view.entities =
                              {r \in entities : r.session_id = req[w].sid /\ r.is_active}]
    /\ pc' = [pc EXCEPT ![w] = "info_logs"]
    /\ UNCHANGED <<db, writer, req, res, nreq, accepted, returned, obs>>

\* the recent log, and the snapshot returned
InfoLogs(w) ==
    /\ pc[w] = "info_logs"
    /\ loc' = [loc EXCEPT ![w].view.logs = RecentLogs(req[w].sid)]
    /\ Finish(w, [Ok(200, "info", 0) EXCEPT !.output = RecentLogs(req[w].sid)])
    /\ UNCHANGED <<db, writer, req, nreq, accepted, returned, obs>>

GetSessionInfo(w) == InfoSession(w) \/ InfoUsers(w) \/ InfoScene(w) \/ InfoLogs(w)

\* the n-th entry of a log of echoes of the game master
Echoed(u, n) ==
    [log_id |-> n, user_id |-> u, speaker |-> <<"Game Master">>, content |-> <<"hi">>,
     command_type |-> "echo", is_gm_override |-> FALSE]

\* a session of FeedSessionIds after its creation and up to MaxLog echoes
InitInfo ==
    \E s \in FeedSessionIds, u \in UserIds, n \in 0..MaxLog :
        /\ rpg_sessions = RowsFor("rpg_sessions", CreateRows(s, u))
        /\ session_users = RowsFor("session_users", CreateRows(s, u))
        /\ scene_info = RowsFor("scene_info", CreateRows(s, u))
        /\ scene_logs = [t \in SessionIds |->
                            IF t = s THEN [i \in 1..n |-> Echoed(u, i)] ELSE <<>>]
        /\ returned = [t \in SessionIds |-> IF t = s THEN [i \in 1..n |-> i] ELSE <<>>]
        /\ entities = {}
        /\ conversations = [v \in UserIds |-> <<>>]
        /\ writer = NoConn
        /\ pc = [w \in Workers |-> "idle"]
        /\ req = [w \in Workers |-> NoReq]
        /\ loc = [w \in Workers |-> NoLoc]
        /\ res = [w \in Workers |-> NoRes]
        /\ nreq = 0
        /\ accepted = [t \in SessionIds |-> 0]
        /\ obs = [o \in Observers |-> NoObs]

NextInfo == \E w \in Workers : GetSessionInfo(w) \/ Return(w)

SpecInfo == InitInfo /\ [][NextInfo]_vars

\* a new session, without entries yet
InitSnap == InitInfo /\ \A s \in SessionIds : scene_logs[s] = <<>>

\* snapshots of a session while members join it and echo
NextSnap ==
    \E w \in Workers :
        \/ GetSessionInfo(w)
        \/ JoinCheck(w)
        \/ JoinInsert(w)
        \/ JoinCommit(w)
        \/ DispatchOf(w, {CmdEcho})
        \/ LogRead(w)
        \/ LogWrite(w)
        \/ LogCommit(w)
        \/ Busy(w)
        \/ Return(w)

SpecSnap == InitSnap /\ [][NextSnap]_vars

(***************************************************************************)
(* Properties                                                              *)
(***************************************************************************)
\* the requests that called add_to_scene_log without holding a write of their own
Appenders == {"echo", "roll", "scene", "ai"}

Range(f) == {f[i] : i \in DOMAIN f}

\* the role of user u in session s ("" when u is no member)
RoleOf(s, u) == IF UserRows(s, u) = {} THEN "" ELSE (CHOOSE r \in UserRows(s, u) : TRUE).role

\* the router admitted the worker's command and it has been answered: the
\* session was active and the user a member when it was taken (memberships
\* are never removed and roles never change, so the role read now is the role
\* the handler read)
Answered(w) ==
    /\ pc[w] = "done"
    /\ req[w].op = "command"
    /\ res[w].code \notin {400, 403, 404}

\* C1: for every session the sequence numbers add_to_scene_log has returned, in
\* the order of the returns, are 1, 2, 3, ...: strictly increasing, no gap,
\* starting at 1, whatever the interleaving of the callers; and the stored rows
\* carry the same numbers
C1_SequenceNumbersGapless ==
    \A s \in SessionIds :
        /\ \A i \in DOMAIN returned[s] : returned[s][i] = i
        /\ Len(scene_logs[s]) = Len(returned[s])
        /\ \A i \in DOMAIN scene_logs[s] : scene_logs[s][i].log_id = i

\* two workers' appends to one session have both returned, with the numbers 1 and 2
C1_Witness ==
    \E s \in SessionIds : \E w1, w2 \in Workers :
        /\ w1 # w2
        /\ pc[w1] = "done" /\ pc[w2] = "done"
        /\ req[w1].sid = s /\ req[w2].sid = s
        /\ res[w1].status = "success" /\ res[w1].log_id = 1
        /\ res[w2].status = "success" /\ res[w2].log_id = 2
        /\ returned[s] = <<1, 2>>

\* C2: two append calls for one session that both read MAX(log_id) before
\* either inserted do not collide and neither is dropped: both end in success,
\* with distinct sequence numbers, both entries stored
C2_ConcurrentAppendsBothStored ==
    \A w1, w2 \in Workers :
        ( /\ w1 # w2
          /\ pc[w1] = "done" /\ pc[w2] = "done"
          /\ loc[w1].caller \in Appenders /\ loc[w2].caller \in Appenders
          /\ req[w1].sid = req[w2].sid
          /\ loc[w1].log_id > 0 /\ loc[w1].log_id = loc[w2].log_id )
        => /\ res[w1].status = "success" /\ res[w2].status = "success"
           /\ res[w1].log_id # res[w2].log_id
           /\ {res[w1].log_id, res[w2].log_id} \subseteq LogIds(req[w1].sid)

\* C3: after k accepted set-scene commands on a session its
\* current_scene_number is 1 + k
C3_SceneCounterCountsCommands ==
    \A s \in SessionIds : \A r \in SceneRows(s) :
        r.current_scene_number = 1 + accepted[s]

\* the arguments the router hands to the handler of a prefixed command
ArgsOf(command) == Tail(Split(command))

IsCommand(command, name) ==
    /\ command # <<>>
    /\ Head(command) = "/"
    /\ Lower(Tail(Split(command)[1])) = <<name>>

\* C4: a summon with a name issued by the game master succeeds: the answer is
\* a success, and the entity and the log entry tagged summon are stored
C4_GmSummonSucceeds ==
    \A w \in Workers :
        ( /\ Answered(w)
          /\ IsCommand(req[w].command, "summon")
          /\ ArgsOf(req[w].command) # <<>>
          /\ RoleOf(req[w].sid, req[w].uid) = "gm" )
        => /\ res[w].status = "success"
           /\ \E r \in entities : r.session_id = req[w].sid /\ r.is_active
           /\ \E i \in DOMAIN scene_logs[req[w].sid] :
                 /\ scene_logs[req[w].sid][i].log_id = res[w].log_id
                 /\ scene_logs[req[w].sid][i].command_type = "summon"

\* the type argument of a summon: the second argument, npc when there is none
TypeArg(command) ==
    IF Len(ArgsOf(command)) > 1 THEN ArgsOf(command)[2] ELSE <<"npc">>

\* C5: when a member takes a summon with a name, the answer is the refusal
\* "Only GM can summon" exactly if the member's role is not gm and the type
\* argument is boss, security or threat; a refusal leaves every table, the lock
\* and the log unchanged
C5_SummonAuthorization ==
    [][ \A w \in Workers :
          ( /\ pc[w] = "idle"
            /\ req'[w].op = "command"
            /\ IsCommand(req'[w].command, "summon")
            /\ ArgsOf(req'[w].command) # <<>>
            /\ ActiveSession(req'[w].sid) # {}
            /\ RoleOf(req'[w].sid, req'[w].uid) # "" )
          => IF /\ RoleOf(req'[w].sid, req'[w].uid) # "gm"
                /\ TypeArg(req'[w].command) \in {<<"boss">>, <<"security">>, <<"threat">>}
             THEN /\ pc'[w] = "done"
                  /\ res'[w] = Err(200, "Only GM can summon")
                  /\ UNCHANGED <<db, writer, returned>>
             ELSE /\ pc'[w] = "summon_insert"
                  /\ res'[w].msg # "Only GM can summon" ]_vars

\* a member who is not the game master was refused a summon of a boss
C5_Witness ==
    \E w \in Workers :
        /\ Answered(w)
        /\ IsCommand(req[w].command, "summon")
        /\ TypeArg(req[w].command) = <<"boss">>
        /\ RoleOf(req[w].sid, req[w].uid) \in {"player", "observer"}
        /\ res[w] = Err(200, "Only GM can summon")

\* C6: a member who is not the game master and sends
\* /summon boss "Lone Star officer" is answered with the refusal of the
\* authorization check
C6_QuotedBossSummonRefused ==
    \A w \in Workers :
        ( /\ Answered(w)
          /\ req[w].command = CmdSummonQuoted
          /\ RoleOf(req[w].sid, req[w].uid) \in {"player", "observer"} )
        => res[w] = Err(200, "Only GM can summon")

\* the kinds of the events a pass of the generator's loop yielded
Kinds(cycle) == [i \in DOMAIN cycle |-> cycle[i].kind]

Polled(o) == obs[o].state = "on" /\ Kinds(obs[o].cycle) # <<"connected">>

\* C7: every pass of the loop of a stream yields exactly one heartbeat event
C7_HeartbeatEveryCycle ==
    \A o \in Observers :
        Polled(o) => Cardinality({i \in DOMAIN obs[o].cycle :
                                     obs[o].cycle[i].kind = "heartbeat"}) = 1

\* the log_id values of the log events of a pass
LogEvents(cycle) ==
    LET logs == SelectSeq(cycle, LAMBDA e : e.kind = "log")
    IN  [i \in DOMAIN logs |-> logs[i].id]

\* the numbers a + 1, ..., b in order
Interval(a, b) == [i \in 1..(b - a) |-> a + i]

\* C8: each connected consumer has received exactly the entries above the
\* cursor its connection started with, each once, in ascending order, up to
\* its present cursor; a pass yields the entries above the cursor it ran with,
\* brings the cursor to the latest sequence number, and yields no log event
\* when the cursor was already there
C8_EachObserverItsOwnDelta ==
    \A o \in Observers :
        obs[o].state = "on" =>
            /\ obs[o].start <= obs[o].last_log_id
            /\ obs[o].last_log_id <= MaxLogId(obs[o].sid)
            /\ obs[o].received = Interval(obs[o].start, obs[o].last_log_id)
            /\ Polled(o) =>
                 /\ obs[o].last_log_id = obs[o].max_at_poll
                 /\ LogEvents(obs[o].cycle) = Interval(obs[o].after, obs[o].last_log_id)
                 /\ (obs[o].after = obs[o].max_at_poll => LogEvents(obs[o].cycle) = <<>>)

\* two consumers of one session that started from different cursors have both
\* converged to the latest sequence number, the last pass of one of them empty
C8_Witness ==
    \E o1, o2 \in Observers :
        /\ Polled(o1) /\ Polled(o2)
        /\ obs[o1].sid = obs[o2].sid
        /\ obs[o1].received = <<1, 2>>
        /\ obs[o2].received = <<2>>
        /\ obs[o1].last_log_id = 2 /\ obs[o2].last_log_id = 2
        /\ MaxLogId(obs[o1].sid) = 2
        /\ LogEvents(obs[o1].cycle) = <<>>

\* C9: a consumer that reconnects resumes from its last cursor: after a pass of
\* the new connection it has received every entry stored by then above that
\* cursor
C9_ReconnectResumesFromCursor ==
    \A o \in Observers :
        Polled(o) =>
            \A id \in LogIds(obs[o].sid) :
                (obs[o].cursor < id /\ id <= obs[o].max_at_poll) => id \in Range(obs[o].received)

\* C10: a command without the prefix, from a member of an active session, is
\* handed to the completion call, and when that call returns text (the request
\* not streaming) the answer is a success and the log holds the entry it names,
\* spoken by WREN with the command kind ai
C10_PromptForwardedAndLogged ==
    \A w \in Workers :
        ( /\ Answered(w)
          /\ Head(req[w].command) # "/" )
        => /\ res[w].msg # "TypeError"
           /\ (~req[w].streaming /\ res[w].status = "success") =>
                 \E i \in DOMAIN scene_logs[req[w].sid] :
                     /\ scene_logs[req[w].sid][i].log_id = res[w].log_id
                     /\ scene_logs[req[w].sid][i].speaker = <<"WREN">>
                     /\ scene_logs[req[w].sid][i].command_type = "ai"


\* the completion call of a request did not produce a completion: the cache
\* missed, the key passed, and the last answer of the service was an error, a
\* timeout, or a body without a usable completion
GenerationFailed(env) ==
    /\ ~env.cached
    /\ env.key_valid
    /\ env.answers # <<>>
    /\ env.answers[Len(env.answers)] # AnswerOk

\* C11: when the completion call of a prompt fails, the caller is answered
\* with an error, the simulated text is handed to nobody, and the session log
\* gets no entry for it
C11_FailedGenerationIsAnError ==
    \A w \in Workers :
        ( /\ pc[w] = "done"
          /\ \/ req[w].op = "ask" /\ Strip(Tail(req[w].command)) # <<>>
             \/ Answered(w) /\ Head(req[w].command) # "/"
          /\ ~req[w].streaming
          /\ GenerationFailed(req[w].env) )
        => /\ res[w].status = "error"
           /\ res[w].output = <<>>
           /\ \A s \in SessionIds : \A i \in DOMAIN scene_logs[s] :
                 scene_logs[s][i].command_type # "ai"


\* C12: a join of a session the participant is already a member of is answered
\* "User already in session" (400) and adds no row, also when two joins of
\* the same participant race; a join of a session that does not exist or is
\* not active is answered "Session not found or inactive" (404)
C12_SecondJoinIsAlreadyMember ==
    \A w \in Workers :
        (pc[w] = "done" /\ req[w].op = "join") =>
            /\ ActiveSession(req[w].sid) = {} =>
                 res[w] = Err(404, "Session not found or inactive")
            /\ ( /\ UserRows(req[w].sid, req[w].uid) # {}
                 /\ res[w].status = "error"
                 /\ res[w].code # 404
                 /\ res[w].msg # "database is locked" )
               => res[w] = Err(400, "User already in session")
            /\ Cardinality(UserRows(req[w].sid, req[w].uid)) <= 1


\* the rows of a table that belong to session s
OfSession(table, s) == {r \in table : r.session_id = s}

\* C13: create_rpg_session stores the session row, its scene row and the
\* creator's gm membership together or not at all: in every state a session
\* has its row in rpg_sessions exactly if it has its row in scene_info, every
\* session row comes with the gm membership of its creator, and there are no
\* memberships of a session without a session row
C13_CreateIsAtomic ==
    \A s \in SessionIds :
        /\ (OfSession(rpg_sessions, s) # {}) = (OfSession(scene_info, s) # {})
        /\ \A r \in OfSession(rpg_sessions, s) :
              \E m \in UserRows(s, r.created_by) : m.role = "gm"
        /\ OfSession(rpg_sessions, s) = {} => OfSession(session_users, s) = {}

\* a creation failed at its third INSERT, after two INSERTs that succeeded,
\* and nothing of that session is stored
C13_Witness ==
    \E w \in Workers :
        /\ pc[w] = "done" /\ req[w].op = "create"
        /\ req[w].fail_at = 3
        /\ res[w] = Err(500, "OperationalError")
        /\ OfSession(rpg_sessions, req[w].sid) = {}
        /\ OfSession(scene_info, req[w].sid) = {}
        /\ OfSession(session_users, req[w].sid) = {}
        /\ \E s \in SessionIds : OfSession(rpg_sessions, s) # {}


\* the scene_info row of a session nobody has set a scene in
FreshScene(s) ==
    [session_id |-> s, location |-> <<"Unknown location">>,
     goal |-> <<"Awaiting mission briefing">>, opposition |-> <<"Unknown">>,
     magical_conditions |-> <<"Normal">>, current_scene_number |-> 1]

\* C14: every active session has exactly one scene_info row, always; and the
\* step that commits a creation leaves that row with the initial location,
\* goal, opposition and magical conditions and scene number 1, and the creator
\* a member with role gm
C14_OneSceneRowPerSession ==
    /\ [](\A s \in SessionIds :
            ActiveSession(s) # {} => Cardinality(SceneRows(s)) = 1)
    /\ [][ \A w \in Workers :
             (pc[w] = "create_commit" /\ pc'[w] = "done")
             => /\ ActiveSession(req[w].sid)' # {}
                /\ SceneRows(req[w].sid)' = {FreshScene(req[w].sid)}
                /\ \E m \in UserRows(req[w].sid, req[w].uid)' : m.role = "gm" ]_vars

\* a creation has been answered with success, its session is active and its
\* scene row is still the initial one
C14_Witness ==
    \E w \in Workers :
        /\ pc[w] = "done" /\ req[w].op = "create" /\ res[w].status = "success"
        /\ ActiveSession(req[w].sid) # {}
        /\ SceneRows(req[w].sid) = {FreshScene(req[w].sid)}
        /\ \E m \in UserRows(req[w].sid, req[w].uid) : m.role = "gm"


\* C15: a participant has at most one session_users row per session, always,
\* and no step changes or removes a row: the role of a membership stays the
\* one its INSERT gave it
C15_OneImmutableRolePerMember ==
    /\ [](\A s \in SessionIds, u \in UserIds : Cardinality(UserRows(s, u)) <= 1)
    /\ [][ \A s \in SessionIds, u \in UserIds :
             UserRows(s, u) # {} => UserRows(s, u)' = UserRows(s, u) ]_vars

\* a member was refused a second join that asked for another role, and the
\* row still holds the role of the first
C15_Witness ==
    \E w \in Workers :
        /\ pc[w] = "done" /\ req[w].op = "join"
        /\ res[w] = Err(400, "User already in session")
        /\ \E m \in UserRows(req[w].sid, req[w].uid) :
              m.role # req[w].role /\ m.role = "observer"


\* C16: the scene log only grows at its end: every step leaves the stored
\* entries of every session as they are, fields and order, and at most adds
\* entries after them; and the stored log_id values of a session are always
\* exactly 1..n, each once
C16_LogIsAppendOnly ==
    /\ [][ \A s \in SessionIds :
             /\ Len(scene_logs'[s]) >= Len(scene_logs[s])
             /\ SubSeq(scene_logs'[s], 1, Len(scene_logs[s])) = scene_logs[s] ]_vars
    /\ [](\A s \in SessionIds :
            /\ LogIds(s) = 1..Len(scene_logs[s])
            /\ \A i, j \in DOMAIN scene_logs[s] :
                  scene_logs[s][i].log_id = scene_logs[s][j].log_id => i = j)

\* a log holds the entries 1 and 2, of two different commands
C16_Witness ==
    \E s \in SessionIds :
        /\ Len(scene_logs[s]) = 2
        /\ scene_logs[s][1].log_id = 1 /\ scene_logs[s][2].log_id = 2
        /\ scene_logs[s][1].command_type # scene_logs[s][2].command_type


\* C17: in every state and for every cursor, the query of the stream returns
\* exactly the stored entries of the session whose log_id is above the cursor,
\* in ascending log_id; with cursor 0 it returns every stored entry
C17_SinceReturnsNewerAscending ==
    \A s \in SessionIds : \A after \in 0..(Len(scene_logs[s]) + 1) :
        LET rows == Since(s, after)
        IN  /\ \A i \in DOMAIN rows : rows[i].log_id > after
            /\ \A i, j \in DOMAIN rows : i < j => rows[i].log_id < rows[j].log_id
            /\ Range(rows) = {r \in Range(scene_logs[s]) : r.log_id > after}
            /\ after = 0 => rows = scene_logs[s]

\* a pass of a stream ran the query with cursor 1 on a log of two entries and
\* yielded entry 2 alone
C17_Witness ==
    \E o \in Observers :
        /\ Polled(o)
        /\ obs[o].after = 1
        /\ Len(scene_logs[obs[o].sid]) = 2
        /\ LogEvents(obs[o].cycle) = <<2>>


\* C18: a scene command taken from a member whose role is player or observer
\* is answered with an error at once, and that step changes no table and
\* appends nothing; and a step that changes a stored scene_info row is the
\* commit of a scene command of a member with role gm
C18_SceneCommandGmOnly ==
    [][ /\ \A w \in Workers :
             ( /\ pc[w] = "idle"
               /\ req'[w].op = "command"
               /\ IsCommand(req'[w].command, "scene")
               /\ ActiveSession(req'[w].sid) # {}
               /\ RoleOf(req'[w].sid, req'[w].uid) \in {"player", "observer"} )
             => /\ pc'[w] = "done"
                /\ res'[w].status = "error"
                /\ UNCHANGED <<db, writer, returned, accepted>>
        /\ \A r \in scene_info :
             r \notin scene_info' =>
                \E w \in Workers :
                    /\ pc[w] = "scene_commit"
                    /\ req[w].sid = r.session_id
                    /\ IsCommand(req[w].command, "scene")
                    /\ RoleOf(req[w].sid, req[w].uid) = "gm" ]_vars

\* a player's scene command with a text was refused, and the scene row of the
\* session is still the initial one, the log empty
C18_Witness ==
    \E w \in Workers :
        /\ Answered(w)
        /\ IsCommand(req[w].command, "scene")
        /\ ArgsOf(req[w].command) # <<>>
        /\ RoleOf(req[w].sid, req[w].uid) = "player"
        /\ res[w] = Err(200, "Only the GM can use the /scene command")
        /\ SceneRows(req[w].sid) = {FreshScene(req[w].sid)}
        /\ scene_logs[req[w].sid] = <<>>


\* where the values of a labelled field start in a scene text: after a colon
\* that follows the label in the same clause (directly, or for the magical
\* conditions after further words of the label), with a value behind it
ValueStarts(text, label) ==
    {j + 1 : j \in {j \in 2..(Len(text) - 1) :
        /\ text[j] = ":"
        /\ ~IsStop(text[j + 1])
        /\ \E i \in 1..(j - 1) :
              /\ LowerPiece(text[i]) = label
              /\ label # "magical" => i = j - 1
              /\ \A k \in (i + 1)..(j - 1) : text[k] # ":" /\ ~IsStop(text[k])}}

\* the value a scene text gives a field, or the field's old value
FieldAfter(text, label, old) ==
    IF ValueStarts(text, label) = {} THEN old
    ELSE Strip(ValueFrom(text, CHOOSE i \in ValueStarts(text, label) :
                                   \A j \in ValueStarts(text, label) : i <= j))

\* C19: the commit of an accepted scene command with a text sets location,
\* goal, opposition and magical_conditions to the trimmed value after their
\* label where the text carries the label, leaves the others as they were,
\* and raises current_scene_number by one
C19_SceneSetsLabelledFieldsOnly ==
    [][ \A w \in Workers :
          (pc[w] = "scene_commit" /\ pc'[w] = "done") =>
             LET text == Join(ArgsOf(req[w].command))
             IN  \A r \in SceneRows(req[w].sid) :
                    SceneRows(req[w].sid)' =
                      {[session_id |-> r.session_id,
                        location |-> FieldAfter(text, "location", r.location),
                        goal |-> FieldAfter(text, "goal", r.goal),
                        opposition |-> FieldAfter(text, "opposition", r.opposition),
                        magical_conditions |->
                            FieldAfter(text, "magical", r.magical_conditions),
                        current_scene_number |-> r.current_scene_number + 1]} ]_vars


\* the dice count and face size a dice argument names: "NdM", or a bare "N"
\* for N six-sided dice
IsDiceNotation(chars) ==
    \/ IsDigit(chars)
    \/ \E i \in 1..Len(chars) :
          /\ chars[i] = "d"
          /\ IsDigit(SubSeq(chars, 1, i - 1))
          /\ IsDigit(SubSeq(chars, i + 1, Len(chars)))

NamedCount(chars) ==
    IF IsDigit(chars) THEN IntOf(chars)
    ELSE IntOf(SubSeq(chars, 1, (CHOOSE i \in 1..Len(chars) : chars[i] = "d") - 1))

NamedFaces(chars) ==
    IF IsDigit(chars) THEN 6
    ELSE IntOf(SubSeq(chars, (CHOOSE i \in 1..Len(chars) : chars[i] = "d") + 1, Len(chars)))

\* the roll handler has answered worker w's command
Rolled(w) ==
    /\ pc[w] = "done"
    /\ req[w].op = "command"
    /\ IsRoll(req[w].command)
    /\ res[w].code \notin {400, 403, 404}

\* C20: a member's roll of NdM, or of a bare N for Nd6, answers with exactly
\* min(N, 100) results, each of them in 1..M
C20_RollGivesCountResultsInRange ==
    \A w \in Workers :
        (Rolled(w) /\ IsDiceNotation(DiceSpecOf(req[w].command))) =>
            LET N == NamedCount(DiceSpecOf(req[w].command))
                M == NamedFaces(DiceSpecOf(req[w].command))
            IN  /\ res[w].status = "success"
                /\ Len(res[w].roll.results) = (IF N < 100 THEN N ELSE 100)
                /\ \A i \in 1..Len(res[w].roll.results) : res[w].roll.results[i] \in 1..M


\* the face size the handler rolled for worker w's command
FaceSize(w) == ParseDice(DiceSpecOf(req[w].command)).dice_size

\* C21: the success count of a roll with face size M is the number of results
\* that are at least M - 1
C21_SuccessesAreTopTwoFaces ==
    \A w \in Workers :
        (Rolled(w) /\ res[w].status = "success") =>
            res[w].roll.successes =
                Cardinality({i \in 1..Len(res[w].roll.results) :
                                res[w].roll.results[i] >= FaceSize(w) - 1})


C23_CriticalIffGlitchWithoutSuccess ==
    \A w \in Workers :
        (Rolled(w) /\ res[w].status = "success") =>
            /\ res[w].roll.critical_glitch <=>
                  (res[w].roll.glitch /\ res[w].roll.successes = 0)
            /\ res[w].roll.critical_glitch => res[w].roll.glitch
            /\ (res[w].roll.glitch /\ res[w].roll.successes > 0)
                  => ~res[w].roll.critical_glitch

\* a glitch that has a success, and is not critical
C23_Witness ==
    \E w \in Workers :
        /\ Rolled(w) /\ res[w].status = "success"
        /\ res[w].roll.glitch
        /\ res[w].roll.successes > 0
        /\ ~res[w].roll.critical_glitch


\* the word after the "/" of a prefixed command, in lower case
CmdWord(command) == Lower(Tail(Split(command)[1]))

\* worker w takes a command of a member of an active session in this step
Admitted(w) ==
    /\ pc[w] = "idle"
    /\ req'[w].op = "command"
    /\ req'[w].command # <<>>
    /\ \E r \in rpg_sessions : r.session_id = req'[w].sid /\ r.is_active
    /\ \E r \in session_users : r.session_id = req'[w].sid /\ r.user_id = req'[w].uid

\* C24: a member's /mark, /meta, /recall or /pulse is answered with the error
\* "not yet implemented", any prefixed command other than these and scene,
\* roll, summon and echo with the error "Unknown command", and neither changes
\* the log, the scene state, the entities or the memberships
C24_PlaceholdersAndUnknownCommands ==
    [][ \A w \in Workers :
          (Admitted(w) /\ Head(req'[w].command) = "/") =>
             LET word == CmdWord(req'[w].command)
             IN  /\ word \in {<<"mark">>, <<"meta">>, <<"recall">>, <<"pulse">>} =>
                      /\ pc'[w] = "done"
                      /\ res'[w].status = "error"
                      /\ res'[w].msg = "not yet implemented"
                      /\ UNCHANGED db
                 /\ word \notin {<<"mark">>, <<"meta">>, <<"recall">>, <<"pulse">>,
                                 <<"scene">>, <<"roll">>, <<"summon">>, <<"echo">>} =>
                      /\ pc'[w] = "done"
                      /\ res'[w].status = "error"
                      /\ res'[w].msg = "Unknown command"
                      /\ UNCHANGED db ]_vars

\* a member's /pulse has been answered "not yet implemented"
C24_Witness ==
    \E w \in Workers :
        /\ Answered(w)
        /\ req[w].command = CmdPulse
        /\ res[w].msg = "not yet implemented"
        /\ scene_logs[req[w].sid] = <<>>

\* C25: a command for a session that does not exist or is not active is
\* answered 404 "Session not found or inactive", a command of a user without a
\* membership in the session 403 "User not in session"; the handler is not
\* entered and the tables are unchanged
C25_UnknownSessionAndNonMemberRejected ==
    [][ \A w \in Workers :
          (pc[w] = "idle" /\ req'[w].op = "command" /\ req'[w].command # <<>>) =>
             LET active == \E r \in rpg_sessions :
                               r.session_id = req'[w].sid /\ r.is_active
                 member == \E r \in session_users :
                               r.session_id = req'[w].sid /\ r.user_id = req'[w].uid
             IN  /\ ~active =>
                      /\ pc'[w] = "done" /\ loc'[w] = NoLoc
                      /\ res'[w] = Err(404, "Session not found or inactive")
                      /\ UNCHANGED db
                 /\ (active /\ ~member) =>
                      /\ pc'[w] = "done" /\ loc'[w] = NoLoc
                      /\ res'[w] = Err(403, "User not in session")
                      /\ UNCHANGED db ]_vars

\* a command for a session that does not exist was refused while another
\* session exists, and a user without a membership was refused
C25_Witness ==
    \E w \in Workers :
        /\ pc[w] = "done" /\ req[w].op = "command"
        /\ res[w].code = 404
        /\ rpg_sessions # {}
        /\ \E v \in Workers : pc[v] = "done" /\ req[v].op = "command" /\ res[v].code = 403


\* the session of the request whose connection holds the write lock
LockSession == IF writer = NoConn THEN "" ELSE req[writer[1]].sid

\* C26: a write statement of a request fails on the write lock only when the
\* lock is held for a write on the same session; a write in progress on one
\* session never makes a join, append, summon or scene update on another
\* session fail
C26_WritesOfOtherSessionsNeverFail ==
    [][ \A w \in Workers :
          ( /\ pc[w] \in {"join_insert", "summon_insert", "log_write", "scene_update"}
            /\ pc'[w] = "done"
            /\ res'[w].msg = "database is locked" )
          => LockSession = req[w].sid ]_vars


\* C27: a pass of a stream yields a scene_update event exactly when the scene
\* state of its session was changed since the consumer's previous pass (or its
\* connection): every change is delivered, an unchanged scene is not repeated
C27_SceneUpdateIffSceneChanged ==
    [][ \A o \in Observers :
          (obs[o].state = "on" /\ obs'[o].state = "on" /\ obs'[o] # obs[o]) =>
             ((\E i \in DOMAIN obs'[o].cycle : obs'[o].cycle[i].kind = "scene_update")
                 <=> accepted[obs[o].sid] > obs[o].scene_seen) ]_vars

\* the sequence numbers stored for session s above the number after, ascending
StoredAbove(s, after) ==
    LET ids == {id \in LogIds(s) : id > after}
    IN  Interval(after, after + Cardinality(ids))

\* C28: the stream endpoint writes nothing: a step of a stream consumer (its
\* connection, a pass, its disconnection) leaves the sessions, memberships,
\* log, scene state and entities and the write lock as they are, changes no
\* other consumer's stream, and a pass yields the entries above the
\* consumer's own cursor whatever the other consumers have read
C28_StreamIsSideEffectFree ==
    [][ \A o \in Observers :
          obs'[o] # obs[o] =>
             /\ UNCHANGED <<db, writer>>
             /\ \A p \in Observers \ {o} : obs'[p] = obs[p]
             /\ (obs[o].state = "on" /\ obs'[o].state = "on") =>
                   LogEvents(obs'[o].cycle) = StoredAbove(obs[o].sid, obs[o].last_log_id)
       ]_vars

\* two consumers of one session have both run a pass that yielded entries,
\* and the session holds its rows
C28_Witness ==
    \E o1, o2 \in Observers :
        /\ o1 # o2
        /\ obs[o1].sid = obs[o2].sid
        /\ Polled(o1) /\ Polled(o2)
        /\ obs[o1].received # <<>> /\ obs[o2].received # <<>>
        /\ obs[o1].received # obs[o2].received
        /\ scene_logs[obs[o1].sid] # <<>>


\* C29: the recent log of a session's snapshot is the last min(20, n) of the
\* n entries of its log, those with the highest sequence numbers, in
\* ascending order of the sequence number
C29_RecentLogIsLastTwenty ==
    \A w \in Workers :
        (pc[w] = "done" /\ req[w].op = "info" /\ res[w].code = 200) =>
            LET n == Len(scene_logs[req[w].sid])
                k == IF n < 20 THEN n ELSE 20
                logs == res[w].output
            IN  /\ Len(logs) = k
                /\ \A i \in 1..k :
                      /\ logs[i].log_id = n - k + i
                      /\ \E j \in 1..n : scene_logs[req[w].sid][j] = logs[i]

\* the snapshot of a session with more than 20 entries has been read
C29_Witness ==
    \E w \in Workers :
        /\ pc[w] = "done" /\ req[w].op = "info" /\ res[w].code = 200
        /\ Len(scene_logs[req[w].sid]) > 20
        /\ Len(res[w].output) = 20
        /\ res[w].output[1].log_id = Len(scene_logs[req[w].sid]) - 19


\* what the tables hold of session s: memberships, log, scene state, entities
SessionData(s) ==
    <<OfSession(session_users, s), scene_logs[s], OfSession(scene_info, s),
      OfSession(entities, s)>>

\* C30: sessions are isolated: a step changes the memberships, the log, the
\* scene state or the entities of a session only as a step of a request that
\* is addressed to that session
C30_SessionsAreIsolated ==
    [][ \A s \in SessionIds :
          SessionData(s)' # SessionData(s) =>
             \E w \in Workers : pc'[w] # pc[w] /\ req[w].sid = s ]_vars

\* two sessions exist; a scene command and an append were committed in one of
\* them while the other still has its first scene state and an empty log
C30_Witness ==
    \E s, t \in SessionIds :
        /\ s # t
        /\ accepted[s] > 0
        /\ scene_logs[s] # <<>>
        /\ OfSession(scene_info, t) = {FreshScene(t)}
        /\ scene_logs[t] = <<>>


\* the number of entries of session s with the command kind
Tagged(s, kind) ==
    Cardinality({i \in DOMAIN scene_logs[s] : scene_logs[s][i].command_type = kind})

\* C31: in every state the store shows, for each session, as many scene
\* entries in the log as scene-state updates: a scene command's entry and its
\* update of the scene state are visible together or not at all
C31_SceneCommandIsAtomic ==
    \A s \in SessionIds : Tagged(s, "scene") = accepted[s]


\* C32: the parts of a snapshot belong to one state of the store: as in every
\* state of the store, each entry of the recent log it returns was written by
\* one of the members it returns
C32_SnapshotIsOneState ==
    \A w \in Workers :
        (pc[w] = "done" /\ req[w].op = "info" /\ res[w].code = 200) =>
            \A i \in DOMAIN loc[w].view.logs :
                \E r \in loc[w].view.users : r.user_id = loc[w].view.logs[i].user_id


\* the scene-tagged entries of session s in the order of their sequence numbers
SceneEntries(s) == SelectSeq(OrderByLogId(scene_logs[s]), LAMBDA r : r.command_type = "scene")

\* C33: when every scene command that appended its entry was accepted, the
\* scene entries of a session are spoken by SCENE with the override flag set and
\* carry the headers **SCENE 1**, **SCENE 2**, ... in sequence order, none
\* repeated
C33_SceneHeadersCountUp ==
    \A s \in SessionIds :
        Tagged(s, "scene") = accepted[s] =>
            \A i \in DOMAIN SceneEntries(s) :
                /\ SceneEntries(s)[i].speaker = <<"SCENE">>
                /\ SceneEntries(s)[i].is_gm_override
                /\ SubSeq(SceneEntries(s)[i].content, 1, 4)
                      = <<"**SCENE ", NumStr(i), "**", "\n">>


(***************************************************************************)
(* C34: the entry an echo command appends                                  *)
(***************************************************************************)
\* the command without its first word
RECURSIVE DropWord(_)
DropWord(s) == IF s # <<>> /\ ~IsSpace(Head(s)) THEN DropWord(Tail(s)) ELSE s

\* the text the client put after the command word
TextOf(command) == Strip(DropWord(command))

\* the step in which worker w commits the entry of an echo command
EchoCommits(w) == pc[w] = "log_commit" /\ loc[w].caller = "echo" /\ pc'[w] = "done"

EchoEntry(w, text) ==
    [log_id |-> Len(scene_logs[req[w].sid]) + 1, user_id |-> req[w].uid,
     speaker |-> (CHOOSE r \in UserRows(req[w].sid, req[w].uid) : TRUE).character_name,
     content |-> text, command_type |-> "echo", is_gm_override |-> FALSE]

EchoAppends(w, text) ==
    /\ UserRows(req[w].sid, req[w].uid) # {}
    /\ scene_logs' = [scene_logs EXCEPT ![req[w].sid] = Append(@, EchoEntry(w, text))]
    /\ UNCHANGED <<rpg_sessions, session_users, entities, scene_info, conversations>>

\* C34: an echo command with non-empty text appends exactly one entry of kind
\* echo, under the member's character name, whose content is the text the
\* client sent, and changes nothing else
C34_EchoAppendsItsText ==
    [][\A w \in Workers : EchoCommits(w) => EchoAppends(w, TextOf(req[w].command))]_vars

\* the same with the text's whitespace runs collapsed to single blanks
C34_EchoAppendsJoinedWords ==
    [][\A w \in Workers :
          EchoCommits(w) => EchoAppends(w, Join(Split(TextOf(req[w].command))))]_vars

\* an echo answered with success has committed its entry, any other answer
\* of an echo leaves the store as it was
C34_EchoAnswerMatchesStore ==
    [][\A w \in Workers :
          (req'[w].op = "command" /\ IsCommand(req'[w].command, "echo") /\ pc'[w] # pc[w]) =>
              \/ EchoCommits(w) /\ res'[w].status = "success"
              \/ /\ UNCHANGED db
                 /\ pc'[w] = "done" => res'[w].status = "error"]_vars


(***************************************************************************)
(* C35: the game-masters of a session                                      *)
(***************************************************************************)
GameMasters(s) == {r \in session_users : r.session_id = s /\ r.role = "gm"}

\* C35: every session has exactly one membership of role gm, whatever the
\* creates and joins that were served
C35_OneGameMaster ==
    \A r \in rpg_sessions : Cardinality(GameMasters(r.session_id)) = 1

\* a scene command of a user who did not create the session is never accepted
C35_OnlyCreatorSetsScene ==
    \A w \in Workers :
        (pc[w] = "done" /\ req[w].op = "command" /\ res[w].msg = "Scene updated") =>
            \E r \in rpg_sessions : r.session_id = req[w].sid /\ r.created_by = req[w].uid


(***************************************************************************)
(* stream_response (GET /stream) and call_openai_api_streaming             *)
(***************************************************************************)
\* what a streaming call meets: the API key, the status of the streamed
\* response (0: the request itself fails), the delta contents of its chunks,
\* and whether the connection fails after them
StreamEnvs ==
    {[key_valid |-> FALSE, status |-> 0, deltas |-> <<>>, broken |-> FALSE],
     [key_valid |-> TRUE, status |-> 200, deltas |-> <<<<"Hel">>, <<>>, <<"lo">>>>, broken |-> FALSE],
     [key_valid |-> TRUE, status |-> 200, deltas |-> <<>>, broken |-> FALSE],
     [key_valid |-> TRUE, status |-> 200, deltas |-> <<<<"Hel">>>>, broken |-> TRUE],
     [key_valid |-> TRUE, status |-> 0, deltas |-> <<>>, broken |-> TRUE],
     [key_valid |-> TRUE, status |-> 401, deltas |-> <<>>, broken |-> FALSE],
     [key_valid |-> TRUE, status |-> 429, deltas |-> <<>>, broken |-> FALSE],
     [key_valid |-> TRUE, status |-> 500, deltas |-> <<>>, broken |-> FALSE]}

StreamPrompts == {<<>>, <<"hello">>, <<"status">>}

\* yield "[SIMULATION MODE] ", then word + " " for each word of the simulation
SimulationChunks(prompt) ==
    LET words == Split(SimulateAiResponse(prompt).text)
    IN  <<<<"[SIMULATION MODE] ">>>> \o [i \in 1..Len(words) |-> words[i] \o <<" ">>]

\* except Exception as e: yield f"Error: {str(e)}"
ErrorChunk == <<"Error: ", "exception">>

\* full_response += content
RECURSIVE JoinChunks(_)
JoinChunks(chunks) == IF chunks = <<>> THEN <<>> ELSE Head(chunks) \o JoinChunks(Tail(chunks))

\* the values call_openai_api_streaming yields, and whether it ends by raising.
\* raise_for_status() raises HTTPStatusError for a status of 400 or more; the
\* handler of line 546 then reads e.response.text of a streamed response that
\* was never read, which raises httpx.ResponseNotRead out of the generator
CallOpenaiApiStreaming(prompt, env) ==
    IF ~env.key_valid
    THEN [chunks |-> SimulationChunks(prompt), raises |-> FALSE]
    ELSE IF env.status = 0
    THEN [chunks |-> <<ErrorChunk>>, raises |-> FALSE]
    ELSE IF env.status >= 400
    THEN [chunks |-> <<>>, raises |-> TRUE]
    ELSE [chunks |-> SelectSeq(env.deltas, LAMBDA c : c # <<>>)
                       \o (IF env.broken THEN <<ErrorChunk>> ELSE <<>>),
          raises |-> FALSE]

\* if user_id and full_response: a stream that ended without an exception and
\* delivered some content is stored in the user's history
StreamRecords(history, prompt, env) ==
    LET full_response == JoinChunks(SelectSeq(env.deltas, LAMBDA c : c # <<>>))
    IN  IF env.key_valid /\ env.status = 200 /\ ~env.broken /\ full_response # <<>>
        THEN AddToConversation(AddToConversation(history, "user", prompt),
                               "assistant", full_response)
        ELSE history

SseEvent(status, content) == [status |-> status, content |-> content]

\* stream_response: the prompt check, then Response(generate())
StreamResponse(w) ==
    /\ pc[w] = "idle"
    /\ Take
    /\ \E u \in UserIds, prompt \in StreamPrompts, env \in StreamEnvs :
        /\ req' = [req EXCEPT ![w] = [NoReq EXCEPT !.op = "stream", !.uid = u,
                                                   !.command = prompt, !.env = env]]
        /\ IF prompt = <<>>
           THEN Finish(w, Err(400, "No prompt provided"))
           ELSE /\ pc' = [pc EXCEPT ![w] = "generate"]
                /\ res' = [res EXCEPT ![w] = [Ok(200, "stream", 0) EXCEPT !.output = <<>>]]
    /\ UNCHANGED <<db, writer, loc, accepted, returned, obs>>

Emit(w, event) == res' = [res EXCEPT ![w].output = Append(@, event)]

\* generate(): the start event
GenerateStart(w) ==
    /\ pc[w] = "generate"
    /\ Emit(w, SseEvent("start", <<>>))
    /\ pc' = [pc EXCEPT ![w] = "generate_loop"]
    /\ UNCHANGED <<db, writer, req, loc, nreq, accepted, returned, obs>>

\* the number of values taken from call_openai_api_streaming so far
Taken(w) == Len(res[w].output) - 1

\* generate(): one pass of the for loop, a streaming event for the value
GenerateYield(w) ==
    /\ pc[w] = "generate_loop"
    /\ LET gen == CallOpenaiApiStreaming(req[w].command, req[w].env)
       IN  /\ Taken(w) < Len(gen.chunks)
           /\ Emit(w, SseEvent("streaming", gen.chunks[Taken(w) + 1]))
    /\ UNCHANGED <<db, writer, pc, req, loc, nreq, accepted, returned, obs>>

\* generate(): the loop ends, by exhaustion (complete) or by an exception (error)
GenerateEnd(w) ==
    /\ pc[w] = "generate_loop"
    /\ LET gen == CallOpenaiApiStreaming(req[w].command, req[w].env)
       IN  /\ Taken(w) = Len(gen.chunks)
           /\ Emit(w, SseEvent(IF gen.raises THEN "error" ELSE "complete", <<>>))
           /\ conversations' =
                  [conversations EXCEPT ![req[w].uid] = StreamRecords(@, req[w].command, req[w].env)]
    /\ pc' = [pc EXCEPT ![w] = "done"]
    /\ UNCHANGED <<rpg_sessions, session_users, scene_logs, entities, scene_info, writer, req,
                   loc, nreq, accepted, returned, obs>>

NextStream ==
    \E w \in Workers :
        \/ StreamResponse(w)
        \/ GenerateStart(w)
        \/ GenerateYield(w)
        \/ GenerateEnd(w)
        \/ Return(w)

SpecStream == Init /\ [][NextStream]_vars

(***************************************************************************)
(* C36: the events of one /stream response                                 *)
(***************************************************************************)
Terminal(e) == e.status \in {"complete", "error"}

\* the completion was not generated: the request failed, was refused, or the
\* connection was lost before the end of the stream
StreamFailed(env) == env.key_valid /\ (env.status # 200 \/ env.broken)

Streams(w) == req[w].op = "stream" /\ res[w].code = 200

\* the order start, streaming*, terminal, which holds of every stream
C36_StartThenStreamingThenTerminal ==
    \A w \in Workers :
        Streams(w) =>
            LET ev == res[w].output
            IN  /\ \A i \in DOMAIN ev : (ev[i].status = "start") <=> (i = 1)
                /\ \A i \in DOMAIN ev : Terminal(ev[i]) => (i = Len(ev) /\ pc[w] = "done")
                /\ \A i \in DOMAIN ev :
                       (i > 1 /\ ~Terminal(ev[i])) => ev[i].status = "streaming"
                /\ pc[w] = "done" => (ev # <<>> /\ Terminal(ev[Len(ev)]))

\* C36: the events of a /stream response are start, then streaming events,
\* then one terminal event and nothing after it; the terminal event is
\* complete when the generation finished and error when it failed
C36_TerminalEventTellsOutcome ==
    /\ C36_StartThenStreamingThenTerminal
    /\ \A w \in Workers :
           (Streams(w) /\ pc[w] = "done") =>
               (res[w].output[Len(res[w].output)].status = "error"
                    <=> StreamFailed(req[w].env))


(***************************************************************************)
(* C37: the authors of the log entries                                     *)
(***************************************************************************)
\* C37: every log entry's author is a member of the entry's session, and an
\* entry with the override flag is a scene entry written by a member whose
\* role is gm
C37_AuthorsAreMembersOverridesAreGm ==
    \A s \in SessionIds : \A i \in DOMAIN scene_logs[s] :
        LET e == scene_logs[s][i]
        IN  /\ UserRows(s, e.user_id) # {}
            /\ e.is_gm_override => (e.command_type = "scene" /\ RoleOf(s, e.user_id) = "gm")

\* a session with a member who is not gm holds an override entry
C37_OverrideInSharedSession ==
    \E s \in SessionIds :
        /\ \E r \in session_users : r.session_id = s /\ r.role # "gm"
        /\ \E i \in DOMAIN scene_logs[s] : scene_logs[s][i].is_gm_override


(***************************************************************************)
(* C38: the entities and the summon entries of a session                   *)
(***************************************************************************)
EntitiesOf(s) == {r \in entities : r.session_id = s}

\* C38: in every state a session stores as many entities as its log has
\* entries of kind summon, also after a summon one of whose writes failed
C38_EntitiesMatchSummonEntries ==
    \A s \in SessionIds : Cardinality(EntitiesOf(s)) = Tagged(s, "summon")

\* a summon whose entity was inserted has been answered with the error of
\* its append
C38_SummonFailedAtAppend ==
    \E w \in Workers :
        /\ pc[w] = "done"
        /\ req[w].op = "command" /\ IsCommand(req[w].command, "summon")
        /\ loc[w].caller = "summon" /\ loc[w].entity # NoEntity
        /\ res[w].status = "error" /\ res[w].msg = "database is locked"


(***************************************************************************)
(* C39: what an ask leaves in the conversation history                     *)
(***************************************************************************)
\* worker w takes and answers a non-streaming ask with a question in this step
AsksNow(w) ==
    /\ pc[w] = "idle"
    /\ req'[w].op = "ask"
    /\ ~req'[w].streaming
    /\ Strip(Tail(req'[w].command)) # <<>>

Exchange(w) ==
    <<[role |-> "user", content |-> Strip(Tail(req'[w].command))],
      [role |-> "assistant", content |-> res'[w].output]>>

\* C39: a non-streaming ask of a user adds the exchange to the user's history
\* exactly once, the question then the answer, whether the answer is a
\* completion of the service, a cached one or a simulated one
C39_AskRecordedOnce ==
    [][\A w \in Workers :
          AsksNow(w) =>
              conversations' = [conversations EXCEPT
                                   ![req'[w].uid] = conversations[req'[w].uid] \o Exchange(w)]
      ]_vars

\* the same for the answers that are no completion of the service
C39_CachedOrSimulatedRecordedOnce ==
    [][\A w \in Workers :
          (AsksNow(w) /\ (req'[w].env.cached \/ ~req'[w].env.key_valid)) =>
              conversations' = [conversations EXCEPT
                                   ![req'[w].uid] = conversations[req'[w].uid] \o Exchange(w)]
      ]_vars


(***************************************************************************)
(* call_openai_api: the retry loop, one pass at a time                     *)
(***************************************************************************)
AnswerUnavailable == [status |-> 503, body |-> "error"]

RetryLen == 5

\* the answers of the service to the successive requests of one call
RetryAnswers ==
    [1..RetryLen -> {AnswerOk, AnswerRateLimit, AnswerUnavailable, AnswerUnauthorized,
                     AnswerTimeout}]

Posted(status) == [kind |-> "post", n |-> status]
Slept(seconds) == [kind |-> "sleep", n |-> seconds]

\* the requests sent and the waits made so far by the call of worker w
Posts(w) == SelectSeq(res[w].output, LAMBDA e : e.kind = "post")
Sleeps(w) == SelectSeq(res[w].output, LAMBDA e : e.kind = "sleep")

\* call_openai_api up to the loop: cache, API key, retry_count = 0
CallStart(w) ==
    /\ pc[w] = "idle"
    /\ Take
    /\ \E u \in UserIds, cached \in BOOLEAN, key_valid \in BOOLEAN, answers \in RetryAnswers :
        /\ req' = [req EXCEPT ![w] = [NoReq EXCEPT !.op = "call", !.uid = u,
                                         !.command = <<"status">>,
                                         !.env = [cached |-> cached, key_valid |-> key_valid,
                                                  answers |-> answers]]]
        /\ IF cached THEN Finish(w, Ok(200, "cached", 0))
           ELSE IF ~key_valid THEN Finish(w, Ok(200, "simulated", 0))
           ELSE /\ pc' = [pc EXCEPT ![w] = "post"]
                /\ res' = [res EXCEPT ![w] = Ok(200, "", 0)]
    /\ UNCHANGED <<db, writer, loc, accepted, returned, obs>>

\* one pass of while retry_count <= max_retries: the request, then the wait
\* and the next pass, or the end of the loop
PostPass(w) ==
    /\ pc[w] = "post"
    /\ LET retry_count == Len(Sleeps(w))
           response == req[w].env.answers[retry_count + 1]
           sent == Append(res[w].output, Posted(response.status))
       IN  IF response.status # 0 /\ response.status \in retryable_status_codes
              /\ retry_count < max_retries
           THEN /\ res' = [res EXCEPT ![w].output = Append(sent, Slept(2 ^ (retry_count + 1)))]
                /\ UNCHANGED pc
           ELSE /\ res' = [res EXCEPT ![w].output = sent,
                                      ![w].msg = IF response.status = 200
                                                    /\ response.body = "choices"
                                                 THEN "completion" ELSE "simulated"]
                /\ pc' = [pc EXCEPT ![w] = "done"]
    /\ UNCHANGED <<db, writer, req, loc, nreq, accepted, returned, obs>>

NextRetry == \E w \in {"w1"} : CallStart(w) \/ PostPass(w) \/ Return(w)

\* a call that has entered the loop runs its next pass: nothing else runs in
\* the worker's thread
SpecRetry == Init /\ [][NextRetry]_vars /\ WF_vars(PostPass("w1"))

\* the loop ends as the function Post says
RetryLoopAgreesWithPost ==
    \A w \in Workers :
        (req[w].op = "call" /\ pc[w] = "done" /\ res[w].output # <<>>) =>
            res[w].msg = Post(req[w].command, req[w].env.answers, 0).kind

(***************************************************************************)
(* C40: the requests and the waits of one call_openai_api                  *)
(***************************************************************************)
Calls(w) == req[w].op = "call" /\ pc[w] \in {"post", "done"}

\* at most 4 requests, and the waits made are 2, 4, 8 seconds in this order
C40_AtMostFourRequests ==
    \A w \in Workers :
        Calls(w) =>
            /\ Len(Posts(w)) <= 4
            /\ \A i \in DOMAIN Sleeps(w) : Sleeps(w)[i].n = 2 ^ i
            /\ Len(Sleeps(w)) <= 3

\* a pass is followed by a wait and another pass only after a status of
\* 429, 500, 502, 503 or 504 with fewer than 4 requests sent; after any other
\* answer or with the 4th request sent the loop ends in that pass
C40_RetryOnlyAfterRetryableStatus ==
    \A w \in Workers :
        (pc[w] = "post" /\ res'[w] # res[w]) =>
            LET status == res'[w].output[Len(res[w].output) + 1].n
                again == status \in {429, 500, 502, 503, 504} /\ Len(Posts(w)) < 3
            IN  IF again
                THEN /\ pc'[w] = "post"
                     /\ Len(res'[w].output) = Len(res[w].output) + 2
                     /\ res'[w].output[Len(res'[w].output)].kind = "sleep"
                ELSE /\ pc'[w] = "done"
                     /\ Len(res'[w].output) = Len(res[w].output) + 1

\* C40: call_openai_api ends, sends at most 4 requests, retries only after a
\* status of 429, 500, 502, 503 or 504, waits 2, 4 and 8 seconds before the
\* 1st, 2nd and 3rd retry, and ends at once after any other answer or when no
\* retry is left
C40_RetryLoopBoundedAndEnds ==
    /\ []C40_AtMostFourRequests
    /\ [][C40_RetryOnlyAfterRetryableStatus]_vars
    /\ \A w \in Workers : (pc[w] = "post") ~> (pc[w] = "done")

\* a call has sent 4 requests, waited 2, 4 and 8 seconds, and ended
C40_FourthRequestSent ==
    \E w \in Workers :
        /\ req[w].op = "call" /\ pc[w] = "done"
        /\ Len(Posts(w)) = 4
        /\ Sleeps(w) = <<Slept(2), Slept(4), Slept(8)>>

=============================================================================
